---------------------------- MODULE Spec2Model ----------------------------
(***************************************************************************)
(* A model of the HR inbox scanner: the rating engine (candidate_rater.py), *)
(* the application classifier and mail loop (email_processor.py), the      *)
(* field extractor (information_extractor.py) and the processing loop      *)
(* (main.py).                                                              *)
(*                                                                         *)
(* Python strings that the program scans are sequences of one-character    *)
(* strings (<<"j","o","b">>); the empty string is <<>>.  Strings that are  *)
(* only compared as a whole (dictionary keys, tier names, content types)   *)
(* are TLA+ strings.  A Python dict is a function whose domain is its set  *)
(* of keys.                                                                *)
(***************************************************************************)
EXTENDS Integers, Sequences, FiniteSets, TLC

VARIABLES
    candidate_info,    \* rater: the dict handed to rate_candidate
    ratings,           \* rater: how many times rate_candidate ran on it
    default_reached,   \* rater: the last _categorize_experience fell through its loop
    email_msg,         \* classifier: the parsed message under test
    verdict,           \* classifier: <<>> until _is_job_application returned, then <<its result>>
    in_text,           \* extractor: the text argument (resume_text, or text of a field method)
    in_email_data,     \* extractor: the message dict argument (email_data)
    call,              \* extractor: the method that was called, "none" before
    result,            \* extractor: <<>> before the call, then <<what it returned>>
    mailbox,           \* scanner: the unread messages of the inbox, in the order search lists them
    imap_conn,         \* scanner: EmailProcessor.imap_conn: "none", "open", "closed", "unclosed"
    search_ok,         \* scanner: whether the UNSEEN search answers OK
    pc,                \* scanner: where process_applications stands
    fetch_i,           \* scanner: index in email_ids of the fetch loop
    application_emails,\* scanner: the list fetch_application_emails builds
    proc_i,            \* scanner: index in application_emails of the processing loop
    candidates,        \* scanner: the list process_applications builds and returns
    origin,            \* scanner: the email_id each record of candidates was made from
    seen,              \* scanner: the email ids flagged \Seen, in the order they were flagged
    failed,            \* scanner: some step failed (a status not OK, an exception)
    file_path,         \* parser: the file at the path handed to extract_text
    parsed,            \* parser: <<>> before the call, then <<what extract_text returned>>
    checked_text,      \* parser: the text handed to is_valid_resume
    valid,             \* parser: <<>> before the call, then <<what is_valid_resume returned>>
    rated,             \* summary: the list of rated records handed to get_rating_summary
    summary,           \* summary: <<>> before the call, then <<what get_rating_summary returned>>
    output_file,       \* excel: the file at ExcelManager.output_file: whether it exists, its Candidates rows
    excel_args,        \* excel: the lists handed to save_candidates and to append_candidates
    excel_pc,          \* excel: the calls made so far
    excel_ret          \* excel: what the calls returned, in order

rater_vars == <<candidate_info, ratings, default_reached>>
classifier_vars == <<email_msg, verdict>>
extractor_vars == <<in_text, in_email_data, call, result>>
scanner_vars == <<mailbox, imap_conn, search_ok, pc, fetch_i, application_emails,
                  proc_i, candidates, origin, seen, failed>>
parser_vars == <<file_path, parsed, checked_text, valid>>
summary_vars == <<rated, summary>>
excel_vars == <<output_file, excel_args, excel_pc, excel_ret>>
vars == <<rater_vars, classifier_vars, extractor_vars, scanner_vars, parser_vars, summary_vars, excel_vars>>

(***************************************************************************)
(* Bounds of the model.                                                    *)
(***************************************************************************)
MaxYears == 12
MaxSkills == 11
MaxRatings == 2
MaxSubjectWords == 1
MaxBodyWords == 2
MaxPhrases == 2
MaxMailbox == 3

\* the scanner at rest, in the specifications of the other components
ScannerIdle ==
    /\ mailbox = <<>> /\ imap_conn = "none" /\ search_ok = TRUE /\ pc = "idle"
    /\ fetch_i = 0 /\ application_emails = <<>> /\ proc_i = 0
    /\ candidates = <<>> /\ origin = <<>> /\ seen = <<>> /\ failed = FALSE

\* the resume parser and the rating summary at rest
ParserIdle == file_path = <<>> /\ parsed = <<>> /\ checked_text = <<>> /\ valid = <<>>
SummaryIdle == rated = <<>> /\ summary = <<>>

\* the Excel manager at rest
ExcelIdle == output_file = <<>> /\ excel_args = <<>> /\ excel_pc = "idle" /\ excel_ret = <<>>


(***************************************************************************)
(* Python helpers.                                                         *)
(***************************************************************************)
\* dict.get(key, default)
Get(d, k, default) == IF k \in DOMAIN d THEN d[k] ELSE default

\* dict.update(u): the keys of u overwrite, the other keys stay
Update(d, u) == u @@ d

\* truth value of a str (or of None, modelled as the empty string)
Truthy(s) == s # <<>>

Min(a, b) == IF a < b THEN a ELSE b

Restrict(d, K) == [k \in (DOMAIN d) \cap K |-> d[k]]


(***************************************************************************)
(* Python str operations on sequences of characters.                       *)
(***************************************************************************)
UpperLetters == <<"A","B","C","D","E","F","G","H","I","J","K","L","M",
                  "N","O","P","Q","R","S","T","U","V","W","X","Y","Z">>
LowerLetters == <<"a","b","c","d","e","f","g","h","i","j","k","l","m",
                  "n","o","p","q","r","s","t","u","v","w","x","y","z">>
Digits == {"0","1","2","3","4","5","6","7","8","9"}
Whitespace == {" ", "\n", "\t", "\r"}
Range(f) == {f[i] : i \in DOMAIN f}

LowerChar(c) ==
    IF c \in Range(UpperLetters)
    THEN LowerLetters[CHOOSE i \in 1..26 : UpperLetters[i] = c]
    ELSE c

UpperChar(c) ==
    IF c \in Range(LowerLetters)
    THEN UpperLetters[CHOOSE i \in 1..26 : LowerLetters[i] = c]
    ELSE c

\* str.lower()
lower(s) == [i \in 1..Len(s) |-> LowerChar(s[i])]

\* s[a:b] for 0 <= a, with b cut to len(s)
Slice(s, a, b) == SubSeq(s, a + 1, Min(b, Len(s)))

\* s.find(k, start): the least offset >= start where k occurs, or -1
find(s, k, start) ==
    LET hits == {i \in start..(Len(s) - Len(k)) : Slice(s, i, i + Len(k)) = k}
    IN  IF hits = {} THEN -1 ELSE CHOOSE i \in hits : \A j \in hits : i <= j

\* k in s
Contains(s, k) == find(s, k, 0) # -1

\* the concatenations of at most n words of a pool
RECURSIVE Texts(_, _)
Texts(pool, n) ==
    IF n = 0 THEN {<<>>}
    ELSE Texts(pool, n - 1) \cup {t \o w : t \in Texts(pool, n - 1), w \in pool}


(***************************************************************************)
(* Python's re module: a backtracking matcher.  M(r, s, i, g) is the       *)
(* sequence of the ways r matches s from offset i, in the order the        *)
(* backtracking engine tries them (a greedy repeat takes the longest       *)
(* first, a lazy one the shortest); each way is the offset where it ends   *)
(* and group 1 as <<start, end>> (<<>> while the group has not taken part).*)
(* The match re finds at an offset is the first of these ways.             *)
(***************************************************************************)
WordChars == Range(UpperLetters) \cup Range(LowerLetters) \cup Digits \cup {"_"}
Letters == Range(UpperLetters) \cup Range(LowerLetters)

\* one character of a class; "negated" is [^...]
In(cs) == [t |-> "set", cs |-> cs, negated |-> FALSE]
NotIn(cs) == [t |-> "set", cs |-> cs, negated |-> TRUE]
\* a literal character, and a literal character under re.IGNORECASE
Ch(c) == In({c})
ChI(c) == In({LowerChar(c), UpperChar(c)})
Cat(rs) == [t |-> "cat", rs |-> rs]
\* r{least,} greedy (r* is 0, r+ is 1) and its lazy form r*?, for r a
\* one-character class, which is all the program's patterns repeat
Rep(r, least) == [t |-> "rep", r |-> r, least |-> least, greedy |-> TRUE]
LazyRep(r, least) == [t |-> "rep", r |-> r, least |-> least, greedy |-> FALSE]
\* r?
Opt(r) == [t |-> "opt", r |-> r]
\* (r), group 1
Group(r) == [t |-> "grp", r |-> r]
\* a | b
Alt(a, b) == [t |-> "alt", a |-> a, b |-> b]
\* \b, ^ (with re.MULTILINE or without) and $
WordBoundary == [t |-> "wb"]
LineStart(multiline) == [t |-> "bol", multiline |-> multiline]
End == [t |-> "eol"]
\* a literal word, and a literal word under re.IGNORECASE
Lit(w) == Cat([i \in 1..Len(w) |-> Ch(w[i])])
LitI(w) == Cat([i \in 1..Len(w) |-> ChI(w[i])])

Way(e, g) == [e |-> e, g |-> g]

IsWordAt(s, i) == i >= 1 /\ i <= Len(s) /\ s[i] \in WordChars

\* the concatenation of the sequences L[lo], ..., L[hi]
RECURSIVE Flatten(_, _, _)
Flatten(L, lo, hi) ==
    IF lo > hi THEN <<>>
    ELSE IF lo = hi THEN L[lo]
    ELSE Flatten(L, lo, (lo + hi) \div 2) \o Flatten(L, (lo + hi) \div 2 + 1, hi)

\* how many characters of s from offset i on are of the class c
Run(c, s, i) ==
    LET Of(j) == (s[j] \in c.cs) # c.negated
    IN  CHOOSE n \in 0..(Len(s) - i) :
            /\ \A j \in (i + 1)..(i + n) : Of(j)
            /\ (i + n = Len(s) \/ ~Of(i + n + 1))

RECURSIVE M(_, _, _, _), MCat(_, _, _, _, _)

\* the ways of rs[k], each continued by the ways of rs[k+1..]
MCat(rs, k, s, i, g) ==
    IF k > Len(rs) THEN <<Way(i, g)>>
    ELSE LET ws == M(rs[k], s, i, g)
             continued == [j \in 1..Len(ws) |-> MCat(rs, k + 1, s, ws[j].e, ws[j].g)]
         IN  Flatten(continued, 1, Len(ws))

\* a repeat is always of a one-character class: it may take any number of
\* characters from "least" up to the run of the class at i
MRep(r, s, i, g) ==
    LET run == IF i < Len(s) THEN Run(r.r, s, i) ELSE 0
        count == IF run >= r.least THEN run - r.least + 1 ELSE 0
    IN  [k \in 1..count |->
            Way(IF r.greedy THEN i + run - k + 1 ELSE i + r.least + k - 1, g)]

M(r, s, i, g) ==
    CASE r.t = "set" ->
            IF i < Len(s) /\ ((s[i + 1] \in r.cs) # r.negated)
            THEN <<Way(i + 1, g)>> ELSE <<>>
      [] r.t = "cat" -> MCat(r.rs, 1, s, i, g)
      [] r.t = "rep" -> MRep(r, s, i, g)
      [] r.t = "opt" -> M(r.r, s, i, g) \o <<Way(i, g)>>
      [] r.t = "alt" -> M(r.a, s, i, g) \o M(r.b, s, i, g)
      [] r.t = "grp" ->
            LET ws == M(r.r, s, i, g)
            IN  [k \in 1..Len(ws) |-> Way(ws[k].e, <<i, ws[k].e>>)]
      [] r.t = "wb" ->
            IF IsWordAt(s, i) # IsWordAt(s, i + 1) THEN <<Way(i, g)>> ELSE <<>>
      [] r.t = "bol" ->
            IF i = 0 \/ (r.multiline /\ s[i] = "\n") THEN <<Way(i, g)>> ELSE <<>>
      [] r.t = "eol" ->
            IF i = Len(s) \/ (i = Len(s) - 1 /\ s[Len(s)] = "\n")
            THEN <<Way(i, g)>> ELSE <<>>

\* A match object: where the match starts and ends, and group 1.
NoMatch == [found |-> FALSE, start |-> 0, end |-> 0, g |-> <<>>]

\* pattern.match(s) at offset i
MatchAt(r, s, i) ==
    LET ws == M(r, s, i, <<>>)
    IN  IF ws = <<>> THEN NoMatch
        ELSE [found |-> TRUE, start |-> i, end |-> ws[1].e, g |-> ws[1].g]

\* pattern.search(s) from offset i: the match at the least offset that has one
SearchFrom(r, s, i) ==
    LET starts == {k \in i..Len(s) : M(r, s, k, <<>>) # <<>>}
    IN  IF starts = {} THEN NoMatch
        ELSE MatchAt(r, s, CHOOSE k \in starts : \A j \in starts : k <= j)

search(r, s) == SearchFrom(r, s, 0)

\* m.group(0) and m.group(1)
group0(s, m) == Slice(s, m.start, m.end)
group1(s, m) == IF m.g = <<>> THEN <<>> ELSE Slice(s, m.g[1], m.g[2])

\* pattern.findall(s) for a pattern with one group: group 1 of the
\* successive matches, none overlapping the one before
RECURSIVE FindAllFrom(_, _, _)
FindAllFrom(r, s, i) ==
    LET m == SearchFrom(r, s, i)
    IN  IF i > Len(s) \/ ~m.found THEN <<>>
        ELSE <<group1(s, m)>>
             \o FindAllFrom(r, s, IF m.end > m.start THEN m.end ELSE m.end + 1)

findall(r, s) == FindAllFrom(r, s, 0)

\* str.isdigit() and int() of a string of ASCII digits
isdigit(s) == s # <<>> /\ \A i \in 1..Len(s) : s[i] \in Digits
DigitValue(c) ==
    CASE c = "0" -> 0 [] c = "1" -> 1 [] c = "2" -> 2 [] c = "3" -> 3 [] c = "4" -> 4
      [] c = "5" -> 5 [] c = "6" -> 6 [] c = "7" -> 7 [] c = "8" -> 8 [] c = "9" -> 9
RECURSIVE int(_)
int(s) == IF s = <<>> THEN 0 ELSE int(SubSeq(s, 1, Len(s) - 1)) * 10 + DigitValue(s[Len(s)])

(***************************************************************************)
(* candidate_rater.py                                                      *)
(***************************************************************************)
\* self.rating_criteria, in dict (insertion) order; float('inf') is the
\* band without an upper limit.
rating_criteria ==
    << [level |-> "Junior",    min_experience |-> 0, max_experience |-> 2, unbounded |-> FALSE],
       [level |-> "Mid-level", min_experience |-> 2, max_experience |-> 5, unbounded |-> FALSE],
       [level |-> "Senior",    min_experience |-> 5, max_experience |-> 0, unbounded |-> TRUE] >>

\* mutant: the upper limit of a band taken as inclusive
M_BandMatches_inclusive(criteria, years) ==
    /\ criteria.min_experience <= years
    /\ (criteria.unbounded \/ years <= criteria.max_experience)

\* criteria['min_experience'] <= years < criteria['max_experience']
BandMatches(criteria, years) ==
    /\ criteria.min_experience <= years
    /\ (criteria.unbounded \/ years < criteria.max_experience)

\* the levels whose band holds years, in the order the loop meets them
MatchingLevels(years) ==
    LET Hit(c) == BandMatches(c, years)
        hits == SelectSeq(rating_criteria, Hit)
    IN  [i \in 1..Len(hits) |-> hits[i].level]

_categorize_experience(years) ==
    IF MatchingLevels(years) # <<>>
    THEN Head(MatchingLevels(years))
    ELSE "Senior"

contact_fields == <<"email", "phone", "location">>

\* sum(1 for field in contact_fields if candidate_info.get(field))
completed_fields(info) ==
    Cardinality({i \in 1..Len(contact_fields) : Truthy(Get(info, contact_fields[i], <<>>))})

\* mutant: the skills addend loses its cap of 30
M_calculate_overall_score_uncapped(info) ==
    LET experience_years == Get(info, "years_of_experience", 0)
        s1 == IF experience_years > 0 THEN Min(experience_years * 4, 40) ELSE 0
        s2 == s1 + Len(Get(info, "skills", <<>>)) * 3
        s3 == IF Truthy(Get(info, "education", <<>>)) THEN s2 + 15 ELSE s2
        s4 == s3 + completed_fields(info) * 5
    IN  Min(s4, 100)

\* mutant: a single year of experience earns nothing (> 1 for > 0)
M_calculate_overall_score_offbyone(info) ==
    LET experience_years == Get(info, "years_of_experience", 0)
        s1 == IF experience_years > 1 THEN Min(experience_years * 4, 40) ELSE 0
        s2 == s1 + Min(Len(Get(info, "skills", <<>>)) * 3, 30)
        s3 == IF Truthy(Get(info, "education", <<>>)) THEN s2 + 15 ELSE s2
        s4 == s3 + completed_fields(info) * 5
    IN  Min(s4, 100)

_calculate_overall_score(info) ==
    LET experience_years == Get(info, "years_of_experience", 0)
        s1 == IF experience_years > 0 THEN Min(experience_years * 4, 40) ELSE 0
        s2 == s1 + Min(Len(Get(info, "skills", <<>>)) * 3, 30)
        s3 == IF Truthy(Get(info, "education", <<>>)) THEN s2 + 15 ELSE s2
        s4 == s3 + completed_fields(info) * 5
    IN  Min(s4, 100)

\* mutant: experience_points loses its cap of 40
M_get_rating_breakdown_uncapped(info) ==
    [ experience_points |-> Get(info, "years_of_experience", 0) * 4,
      skills_points     |-> Min(Len(Get(info, "skills", <<>>)) * 3, 30),
      education_points  |-> IF Truthy(Get(info, "education", <<>>)) THEN 15 ELSE 0,
      contact_points    |-> completed_fields(info) * 5 ]

_get_rating_breakdown(info) ==
    [ experience_points |-> Min(Get(info, "years_of_experience", 0) * 4, 40),
      skills_points     |-> Min(Len(Get(info, "skills", <<>>)) * 3, 30),
      education_points  |-> IF Truthy(Get(info, "education", <<>>)) THEN 15 ELSE 0,
      contact_points    |-> completed_fields(info) * 5 ]

\* mutant: the score is added to the one the record already carries
M_rate_candidate_accumulate(info) ==
    Update(info,
           [ experience_level |-> _categorize_experience(Get(info, "years_of_experience", 0)),
             overall_score    |-> Min(Get(info, "overall_score", 0) + _calculate_overall_score(info), 100),
             rating_breakdown |-> _get_rating_breakdown(info) ])

\* mutant: a new dict with the rating fields alone is returned
M_rate_candidate_fresh(info) ==
    [ experience_level |-> _categorize_experience(Get(info, "years_of_experience", 0)),
      overall_score    |-> _calculate_overall_score(info),
      rating_breakdown |-> _get_rating_breakdown(info) ]

\* rate_candidate: the three values are computed on the dict as it is before
\* the update, then written into it.
rate_candidate(info) ==
    Update(info,
           [ experience_level |-> _categorize_experience(Get(info, "years_of_experience", 0)),
             overall_score    |-> _calculate_overall_score(info),
             rating_breakdown |-> _get_rating_breakdown(info) ])

(***************************************************************************)
(* The records the rater is run on.                                        *)
(***************************************************************************)
S_addr == <<"a", "@", "b", ".", "i", "o">>
S_phone == <<"5", "5", "5", "-", "1", "2", "3", "-", "4", "5", "6", "7">>
S_city == <<"O", "s", "l", "o">>
S_name == <<"A", "n", "n", " ", "L", "e", "e">>
S_degree == <<"B", "S", "c">>
S_role == <<"D", "e", "v">>

BaseKeys == {"name", "email", "phone", "location", "years_of_experience",
             "applied_position", "skills", "education", "raw_text_length",
             "extraction_source"}
RatingKeys == {"experience_level", "overall_score", "rating_breakdown"}
ScoredKeys == {"years_of_experience", "skills", "education", "email", "phone", "location"}

\* a skills list of n distinct entries
SkillList(n) == [i \in 1..n |-> <<"s", "k", i>>]

FullRecords ==
    { [ name |-> S_name, email |-> e, phone |-> p, location |-> l,
        years_of_experience |-> y, applied_position |-> S_role,
        skills |-> SkillList(n), education |-> d,
        raw_text_length |-> 0, extraction_source |-> "email" ] :
      e \in {<<>>, S_addr}, p \in {<<>>, S_phone}, l \in {<<>>, S_city},
      y \in 0..MaxYears, n \in 0..MaxSkills, d \in {<<>>, S_degree} }

\* dicts with keys missing, as the rater's .get defaults allow
PartialRecords ==
    { Restrict(r, K) :
      r \in {f \in FullRecords : f.years_of_experience \in {0, 5} /\ Len(f.skills) = 3
                                 /\ f.email = S_addr /\ f.phone = S_phone},
      K \in SUBSET ScoredKeys }

RaterInputs == FullRecords \cup PartialRecords

(***************************************************************************)
(* The rater as a state machine: a record is chosen, then rated, and may   *)
(* be rated again.                                                         *)
(***************************************************************************)
InitRater ==
    /\ candidate_info \in RaterInputs
    /\ ratings = 0
    /\ default_reached = FALSE
    /\ email_msg = <<>> /\ verdict = <<>>
    /\ in_text = <<>> /\ in_email_data = <<>> /\ call = "none" /\ result = <<>>
    /\ ScannerIdle /\ ParserIdle /\ SummaryIdle /\ ExcelIdle

RateCandidate ==
    /\ ratings < MaxRatings
    /\ candidate_info' = rate_candidate(candidate_info)
    /\ default_reached' = (MatchingLevels(Get(candidate_info, "years_of_experience", 0)) = <<>>)
    /\ ratings' = ratings + 1
    /\ UNCHANGED <<classifier_vars, extractor_vars, scanner_vars, parser_vars, summary_vars, excel_vars>>

NextRater == RateCandidate

SpecRater == InitRater /\ [][NextRater]_vars

(***************************************************************************)
(* Properties of the rating engine.                                        *)
(***************************************************************************)
Rated == ratings >= 1

\* the base fields of the record being rated, with the rater's defaults
R_years == Get(candidate_info, "years_of_experience", 0)
R_nskills == Len(Get(candidate_info, "skills", <<>>))
R_ncontact ==
    (IF Get(candidate_info, "email", <<>>) # <<>> THEN 1 ELSE 0)
    + (IF Get(candidate_info, "phone", <<>>) # <<>> THEN 1 ELSE 0)
    + (IF Get(candidate_info, "location", <<>>) # <<>> THEN 1 ELSE 0)
R_has_education == Get(candidate_info, "education", <<>>) # <<>>

\* C1: after rate_candidate, overall_score = min(E + S + D + C, 100) with
\* E = min(4 * years, 40), S = min(3 * number of skills, 30), D = 15 if the
\* education is non-empty and 0 otherwise, C = 5 per non-empty contact field.
C1_ScoreFormula ==
    Rated =>
        LET E == IF R_years * 4 < 40 THEN R_years * 4 ELSE 40
            S == IF R_nskills * 3 < 30 THEN R_nskills * 3 ELSE 30
            D == IF R_has_education THEN 15 ELSE 0
            C == 5 * R_ncontact
            total == E + S + D + C
        IN  candidate_info.overall_score = (IF total < 100 THEN total ELSE 100)

\* a record above both caps (more than 10 years, more than 10 skills) was rated
C1_Witness ==
    /\ Rated
    /\ R_years > 10
    /\ R_nskills > 10
    /\ R_has_education
    /\ R_ncontact = 2
    /\ candidate_info.overall_score = 95

\* C2: the tier is Junior on [0,2), Mid-level on [2,5), Senior from 5 on;
\* exactly one band holds the years, and the loop of _categorize_experience
\* never falls through to its default.
C2_TierBands ==
    Rated =>
        /\ (R_years >= 0 /\ R_years < 2) => candidate_info.experience_level = "Junior"
        /\ (R_years >= 2 /\ R_years < 5) => candidate_info.experience_level = "Mid-level"
        /\ R_years >= 5 => candidate_info.experience_level = "Senior"
        /\ Len(MatchingLevels(R_years)) = 1
        /\ ~default_reached

\* the two boundaries: a record of 5 years was rated Senior
C2_Witness ==
    /\ Rated
    /\ R_years = 5
    /\ candidate_info.experience_level = "Senior"

\* C3: 0 <= overall_score <= 100; the score is 0 for a record with no
\* years, no skills, no education and no contact field, and positive as soon
\* as one of them is present.
C3_ScoreRange ==
    Rated =>
        /\ candidate_info.overall_score \in 0..100
        /\ (candidate_info.overall_score = 0) <=>
              (R_years = 0 /\ R_nskills = 0 /\ ~R_has_education /\ R_ncontact = 0)

\* the dict with no field at all was rated, and scored 0
C3_Witness ==
    /\ Rated
    /\ DOMAIN candidate_info = RatingKeys
    /\ candidate_info.overall_score = 0

\* C4: overall_score is the sum of the four rating_breakdown values, each
\* within its maximum (40, 30, 15, 15), so the clamp to 100 changes nothing.
C4_BreakdownSum ==
    Rated =>
        LET b == candidate_info.rating_breakdown
            total == b.experience_points + b.skills_points
                     + b.education_points + b.contact_points
        IN  /\ b.experience_points \in 0..40
            /\ b.skills_points \in 0..30
            /\ b.education_points \in 0..15
            /\ b.contact_points \in 0..15
            /\ total <= 100
            /\ candidate_info.overall_score = total

\* a record at every maximum was rated
C4_Witness ==
    /\ Rated
    /\ R_years > 10
    /\ candidate_info.rating_breakdown.experience_points = 40
    /\ candidate_info.rating_breakdown.skills_points = 30
    /\ candidate_info.overall_score = 100

\* C5: rating an already rated record again leaves experience_level,
\* overall_score and rating_breakdown as the first rating set them.
C5_Idempotent ==
    [][(ratings >= 1 /\ ratings' = ratings + 1) =>
          /\ candidate_info'.experience_level = candidate_info.experience_level
          /\ candidate_info'.overall_score = candidate_info.overall_score
          /\ candidate_info'.rating_breakdown = candidate_info.rating_breakdown]_vars

\* a record with a positive score was rated a second time
C5_Witness ==
    /\ ratings = 2
    /\ candidate_info.overall_score > 0
    /\ candidate_info.experience_level = "Mid-level"

(***************************************************************************)
(* candidate_rater.py: get_rating_summary.                                 *)
(***************************************************************************)
RECURSIVE Gcd(_, _)
Gcd(a, b) == IF b = 0 THEN a ELSE Gcd(b, a % b)

\* a / b of Python, for a >= 0 and b > 0: the quotient as a fraction in
\* lowest terms (the rounding of the float is left out)
Quotient(a, b) == [num |-> a \div Gcd(a, b), den |-> b \div Gcd(a, b)]

\* the keys of level_counts
Levels == {"Junior", "Mid-level", "Senior"}

\* total_score after the loop over the candidates
RECURSIVE TotalScore(_)
TotalScore(cs) ==
    IF cs = <<>> THEN 0
    ELSE Get(Head(cs), "overall_score", 0) + TotalScore(Tail(cs))

\* mutant: the average is rounded down to an integer
M_get_rating_summary_floor(cs) ==
    IF cs = <<>> THEN <<>>
    ELSE LET total_candidates == Len(cs)
             level_counts ==
                 [l \in Levels |->
                     Cardinality({i \in 1..Len(cs) : Get(cs[i], "experience_level", "Junior") = l})]
             level_percentages ==
                 [l \in Levels |-> Quotient(level_counts[l] * 100, total_candidates)]
         IN  [ total_candidates |-> total_candidates,
               level_counts |-> level_counts,
               level_percentages |-> level_percentages,
               average_score |-> Quotient(TotalScore(cs) \div total_candidates, 1),
               distribution |->
                   [ junior_percentage |-> level_percentages["Junior"],
                     mid_level_percentage |-> level_percentages["Mid-level"],
                     senior_percentage |-> level_percentages["Senior"] ] ]

\* get_rating_summary: {} for no candidate; a level that is no key of
\* level_counts raises KeyError
get_rating_summary(cs) ==
    IF cs = <<>> THEN <<>>
    ELSE IF \E i \in 1..Len(cs) : Get(cs[i], "experience_level", "Junior") \notin Levels
    THEN [raised |-> "KeyError"]
    ELSE LET total_candidates == Len(cs)
             level_counts ==
                 [l \in Levels |->
                     Cardinality({i \in 1..Len(cs) : Get(cs[i], "experience_level", "Junior") = l})]
             level_percentages ==
                 [l \in Levels |-> Quotient(level_counts[l] * 100, total_candidates)]
         IN  [ total_candidates |-> total_candidates,
               level_counts |-> level_counts,
               level_percentages |-> level_percentages,
               average_score |-> Quotient(TotalScore(cs), total_candidates),
               distribution |->
                   [ junior_percentage |-> level_percentages["Junior"],
                     mid_level_percentage |-> level_percentages["Mid-level"],
                     senior_percentage |-> level_percentages["Senior"] ] ]

(***************************************************************************)
(* The summary as a state machine: a list of rated records is chosen, then *)
(* summarised.                                                             *)
(***************************************************************************)
MaxCandidates == 3

\* rated records of the three tiers, with several scores
SummaryRecords ==
    { rate_candidate(r) :
        r \in { f \in FullRecords :
                  /\ f.years_of_experience \in {1, 3, 7}
                  /\ Len(f.skills) \in {0, 4}
                  /\ f.email = S_addr /\ f.phone = <<>> /\ f.location = <<>>
                  /\ f.education = <<>> } }

SummaryInputs == UNION {[1..n -> SummaryRecords] : n \in 0..MaxCandidates}

InitSummary ==
    /\ rated \in SummaryInputs
    /\ summary = <<>>
    /\ candidate_info = <<>> /\ ratings = 0 /\ default_reached = FALSE
    /\ email_msg = <<>> /\ verdict = <<>>
    /\ in_text = <<>> /\ in_email_data = <<>> /\ call = "none" /\ result = <<>>
    /\ ScannerIdle /\ ParserIdle /\ ExcelIdle

GetRatingSummary ==
    /\ summary = <<>>
    /\ summary' = <<get_rating_summary(rated)>>
    /\ UNCHANGED <<rated, rater_vars, classifier_vars, extractor_vars, scanner_vars,
                   parser_vars, excel_vars>>

NextSummary == GetRatingSummary

SpecSummary == InitSummary /\ [][NextSummary]_vars

\* the records of a tier and the sum of the scores in the list summarised
G_count(l) == Cardinality({i \in 1..Len(rated) : rated[i].experience_level = l})
RECURSIVE G_sum(_)
G_sum(n) == IF n = 0 THEN 0 ELSE rated[n].overall_score + G_sum(n - 1)

\* C14: get_rating_summary returns an empty summary for an empty list; for
\* a non-empty list of rated records total_candidates is the length of the
\* list, the counts of Junior, Mid-level and Senior add up to it, each
\* percentage is count / total * 100 and average_score is the sum of the
\* scores divided by total_candidates.
C14_Summary ==
    summary # <<>> =>
        /\ rated = <<>> => summary[1] = <<>>
        /\ rated # <<>> =>
              LET r == summary[1]
              IN  /\ r.total_candidates = Len(rated)
                  /\ DOMAIN r.level_counts = {"Junior", "Mid-level", "Senior"}
                  /\ r.level_counts["Junior"] + r.level_counts["Mid-level"]
                        + r.level_counts["Senior"] = r.total_candidates
                  /\ \A l \in DOMAIN r.level_counts :
                        /\ r.level_counts[l] = G_count(l)
                        /\ r.level_percentages[l].num * Len(rated)
                              = G_count(l) * 100 * r.level_percentages[l].den
                  /\ r.average_score.num * Len(rated)
                        = G_sum(Len(rated)) * r.average_score.den

\* three records of the three tiers were summarised; their average is no
\* whole number
C14_Witness ==
    /\ summary # <<>>
    /\ Len(rated) = 3
    /\ summary[1].level_counts = [l \in Levels |-> 1]
    /\ summary[1].average_score.den = 3

\* C13: rate_candidate returns its input plus the rating fields: the keys of
\* the result are those of the input and experience_level, overall_score and
\* rating_breakdown, and every base field of the input (name, email, phone,
\* location, years_of_experience, applied_position, skills, education,
\* raw_text_length, extraction_source) has the value it had.
C13_Frame ==
    [][ratings' = ratings + 1 =>
          /\ DOMAIN candidate_info' = DOMAIN candidate_info \cup RatingKeys
          /\ \A k \in DOMAIN candidate_info \ RatingKeys :
                candidate_info'[k] = candidate_info[k]]_vars

\* a record with all ten base fields was rated: it has thirteen fields
C13_Witness ==
    /\ ratings = 1
    /\ BaseKeys \subseteq DOMAIN candidate_info
    /\ Cardinality(BaseKeys) = 10
    /\ DOMAIN candidate_info = BaseKeys \cup RatingKeys
    /\ candidate_info.skills # <<>>


(***************************************************************************)
(* information_extractor.py                                                *)
(***************************************************************************)
Spaces == Rep(In(Whitespace), 0)
Number == Group(Rep(In(Digits), 1))
\* years?  under re.IGNORECASE
Years == Cat(<<LitI(<<"y","e","a","r">>), Opt(ChI("s"))>>)
W_experience == <<"e","x","p","e","r","i","e","n","c","e">>

\* self.email_pattern
\*   \b[A-Za-z0-9._%+-]+@[A-Za-z0-9.-]+\.[A-Z|a-z]{2,}\b
email_pattern ==
    Cat(<< WordBoundary,
           Rep(In(Letters \cup Digits \cup {".", "_", "%", "+", "-"}), 1),
           Ch("@"),
           Rep(In(Letters \cup Digits \cup {".", "-"}), 1),
           Ch("."),
           Rep(In(Letters \cup {"|"}), 2),
           WordBoundary >>)

\* self.experience_patterns, all under re.IGNORECASE
\*   (\d+)\+?\s*years?\s*(?:of\s*)?experience
\*   experience.*?(\d+)\+?\s*years?
\*   (\d+)\+?\s*years?\s*in
\*   over\s*(\d+)\s*years?
\*   more\s*than\s*(\d+)\s*years?
experience_patterns ==
    << Cat(<<Number, Opt(Ch("+")), Spaces, Years, Spaces,
             Opt(Cat(<<LitI(<<"o","f">>), Spaces>>)), LitI(W_experience)>>),
       Cat(<<LitI(W_experience), LazyRep(NotIn({"\n"}), 0), Number, Opt(Ch("+")),
             Spaces, Years>>),
       Cat(<<Number, Opt(Ch("+")), Spaces, Years, Spaces, LitI(<<"i","n">>)>>),
       Cat(<<LitI(<<"o","v","e","r">>), Spaces, Number, Spaces, Years>>),
       Cat(<<LitI(<<"m","o","r","e">>), Spaces, LitI(<<"t","h","a","n">>), Spaces,
             Number, Spaces, Years>>) >>

\* date_pattern   (19|20)\d{2}
date_pattern ==
    Cat(<<Group(Alt(Lit(<<"1","9">>), Lit(<<"2","0">>))), In(Digits), In(Digits)>>)

current_year == 2024

MaxOf(ns) == CHOOSE n \in Range(ns) : \A k \in Range(ns) : k <= n
MinOf(ns) == CHOOSE n \in Range(ns) : \A k \in Range(ns) : n <= k
Ints(ms) == [i \in 1..Len(ms) |-> int(ms[i])]

\* the date-range estimate that ends _extract_experience
EstimateFromDates(text) ==
    LET dates == Ints(findall(date_pattern, text))
    IN  IF Len(dates) >= 2 /\ MinOf(dates) > 1980 /\ MinOf(dates) < current_year
        THEN Min(current_year - MinOf(dates), 50)
        ELSE 0

\* the loop of _extract_experience from pattern k on: the first pattern with
\* matches decides (max() of no digit string raises ValueError: continue)
RECURSIVE ExperienceFrom(_, _)
ExperienceFrom(k, text) ==
    IF k > Len(experience_patterns) THEN EstimateFromDates(text)
    ELSE LET matches == findall(experience_patterns[k], text)
             digit_matches == SelectSeq(matches, isdigit)
         IN  IF matches # <<>> /\ digit_matches # <<>>
             THEN Min(MaxOf(Ints(digit_matches)), 50)
             ELSE ExperienceFrom(k + 1, text)

_extract_experience(text) == ExperienceFrom(1, text)

\* mutant: the text is searched before the sender header
M_extract_email_text_first(text, email_data) ==
    LET sender == Get(email_data, "sender", <<>>)
    IN  IF search(email_pattern, text).found
        THEN group0(text, search(email_pattern, text))
        ELSE IF search(email_pattern, sender).found
             THEN group0(sender, search(email_pattern, sender))
             ELSE <<>>

_extract_email(text, email_data) ==
    LET sender == Get(email_data, "sender", <<>>)
    IN  IF search(email_pattern, sender).found
        THEN group0(sender, search(email_pattern, sender))
        ELSE IF search(email_pattern, text).found
             THEN group0(text, search(email_pattern, text))
             ELSE <<>>


\* str.strip()
strip(s) ==
    LET kept == {i \in 1..Len(s) : s[i] \notin Whitespace}
    IN  IF kept = {} THEN <<>>
        ELSE SubSeq(s, CHOOSE i \in kept : \A j \in kept : i <= j,
                       CHOOSE i \in kept : \A j \in kept : j <= i)

\* str.split('\n')
RECURSIVE split_lines(_)
split_lines(s) ==
    IF find(s, <<"\n">>, 0) = -1 THEN <<s>>
    ELSE <<Slice(s, 0, find(s, <<"\n">>, 0))>>
         \o split_lines(Slice(s, find(s, <<"\n">>, 0) + 1, Len(s)))

\* str.title(): a letter after a letter is lowered, any other letter raised
title(s) ==
    [i \in 1..Len(s) |-> IF i > 1 /\ s[i - 1] \in Letters THEN LowerChar(s[i]) ELSE UpperChar(s[i])]

\* nltk's sent_tokenize, as far as the texts of the model go: a sentence
\* ends with a '.', '!' or '?' that whitespace follows, and the whitespace
\* between two sentences belongs to neither.
RECURSIVE sent_tokenize(_)
sent_tokenize(s) ==
    LET t == strip(s)
        ends == {i \in 1..(Len(t) - 1) : t[i] \in {".", "!", "?"} /\ t[i + 1] \in Whitespace}
        first == CHOOSE i \in ends : \A j \in ends : i <= j
    IN  IF t = <<>> THEN <<>>
        ELSE IF ends = {} THEN <<t>>
        ELSE <<SubSeq(t, 1, first)>> \o sent_tokenize(SubSeq(t, first + 1, Len(t)))

\* self.phone_pattern
\*   (\+\d{1,3}[-.\s]?)?\(?\d{3}\)?[-.\s]?\d{3}[-.\s]?\d{4}
\* (its group is never read: it is modelled without one)
Separator == Opt(In({"-", "."} \cup Whitespace))
Digit == In(Digits)
phone_pattern ==
    Cat(<< Opt(Cat(<<Ch("+"), Digit, Opt(Digit), Opt(Digit), Separator>>)),
           Opt(Ch("(")), Digit, Digit, Digit, Opt(Ch(")")), Separator,
           Digit, Digit, Digit, Separator, Digit, Digit, Digit, Digit >>)

\* [A-Z][a-z]+\s+[A-Z][a-z]+
TwoCapitalizedWords ==
    Cat(<< In(Range(UpperLetters)), Rep(In(Range(LowerLetters)), 1),
           Rep(In(Whitespace), 1),
           In(Range(UpperLetters)), Rep(In(Range(LowerLetters)), 1) >>)

\* self.name_pattern   ^([A-Z][a-z]+\s+[A-Z][a-z]+)   with re.MULTILINE
name_pattern == Cat(<<LineStart(TRUE), Group(TwoCapitalizedWords)>>)

\* ^([^<]+)   and   ^[A-Z][a-z]+\s+[A-Z][a-z]+   of _extract_name
display_name_pattern == Cat(<<LineStart(FALSE), Group(Rep(NotIn({"<"}), 1))>>)
name_line_pattern == Cat(<<LineStart(FALSE), TwoCapitalizedWords>>)

\* self.location_patterns, all under re.IGNORECASE; only group 1 is read
\*   (?:Location|Address|Based|Located):\s*([A-Za-z\s,]+)
\*   ([A-Za-z\s]+),\s*([A-Z]{2})\s*\d{5}
\*   ([A-Za-z\s]+),\s*([A-Za-z\s]+)\s*,\s*([A-Za-z\s]+)
LettersAndSpaces == Rep(In(Letters \cup Whitespace), 1)
location_patterns ==
    << Cat(<< Alt(LitI(<<"L","o","c","a","t","i","o","n">>),
                  Alt(LitI(<<"A","d","d","r","e","s","s">>),
                      Alt(LitI(<<"B","a","s","e","d">>),
                          LitI(<<"L","o","c","a","t","e","d">>)))),
              Ch(":"), Spaces, Group(Rep(In(Letters \cup Whitespace \cup {","}), 1)) >>),
       Cat(<< Group(LettersAndSpaces), Ch(","), Spaces, In(Letters), In(Letters),
              Spaces, Digit, Digit, Digit, Digit, Digit >>),
       Cat(<< Group(LettersAndSpaces), Ch(","), Spaces, LettersAndSpaces, Spaces,
              Ch(","), Spaces, LettersAndSpaces >>) >>

location_indicators ==
    << <<"C","i","t","y",":">>,
       <<"L","o","c","a","t","i","o","n",":">>,
       <<"A","d","d","r","e","s","s",":">>,
       <<"B","a","s","e","d"," ","i","n",":">>,
       <<"L","o","c","a","t","e","d"," ","i","n",":">> >>

position_keywords ==
    << <<"s","o","f","t","w","a","r","e"," ","e","n","g","i","n","e","e","r">>,
       <<"d","e","v","e","l","o","p","e","r">>,
       <<"p","r","o","g","r","a","m","m","e","r">>,
       <<"a","n","a","l","y","s","t">>,
       <<"m","a","n","a","g","e","r">>,
       <<"c","o","n","s","u","l","t","a","n","t">>,
       <<"s","p","e","c","i","a","l","i","s","t">>,
       <<"c","o","o","r","d","i","n","a","t","o","r">>,
       <<"d","i","r","e","c","t","o","r">>,
       <<"a","r","c","h","i","t","e","c","t">>,
       <<"d","e","s","i","g","n","e","r">>,
       <<"a","d","m","i","n","i","s","t","r","a","t","o","r">> >>

\* position_patterns, used with re.IGNORECASE
\*   application for\s+(.+?)(?:\s|$)     applying for\s+(.+?)(?:\s|$)
\*   position:\s*(.+?)(?:\s|$)           role:\s*(.+?)(?:\s|$)
Captured == Cat(<<Group(LazyRep(NotIn({"\n"}), 1)), Alt(In(Whitespace), End)>>)
position_patterns ==
    << Cat(<<LitI(<<"a","p","p","l","i","c","a","t","i","o","n"," ","f","o","r">>), Rep(In(Whitespace), 1), Captured>>),
       Cat(<<LitI(<<"a","p","p","l","y","i","n","g"," ","f","o","r">>), Rep(In(Whitespace), 1), Captured>>),
       Cat(<<LitI(<<"p","o","s","i","t","i","o","n",":">>), Spaces, Captured>>),
       Cat(<<LitI(<<"r","o","l","e",":">>), Spaces, Captured>>) >>

common_skills ==
    << <<"P","y","t","h","o","n">>,
       <<"J","a","v","a">>,
       <<"J","a","v","a","S","c","r","i","p","t">>,
       <<"C","+","+">>,
       <<"C","#">>,
       <<"S","Q","L">>,
       <<"H","T","M","L">>,
       <<"C","S","S">>,
       <<"R","e","a","c","t">>,
       <<"A","n","g","u","l","a","r">>,
       <<"N","o","d","e",".","j","s">>,
       <<"D","j","a","n","g","o">>,
       <<"F","l","a","s","k">>,
       <<"S","p","r","i","n","g"," ","B","o","o","t">>,
       <<"A","W","S">>,
       <<"A","z","u","r","e">>,
       <<"D","o","c","k","e","r">>,
       <<"K","u","b","e","r","n","e","t","e","s">>,
       <<"G","i","t">>,
       <<"L","i","n","u","x">>,
       <<"W","i","n","d","o","w","s">>,
       <<"M","a","c","h","i","n","e"," ","L","e","a","r","n","i","n","g">>,
       <<"D","a","t","a"," ","S","c","i","e","n","c","e">>,
       <<"A","I">>,
       <<"T","e","n","s","o","r","F","l","o","w">>,
       <<"P","y","T","o","r","c","h">>,
       <<"S","a","l","e","s","f","o","r","c","e">>,
       <<"S","A","P">>,
       <<"O","r","a","c","l","e">>,
       <<"M","o","n","g","o","D","B">>,
       <<"P","o","s","t","g","r","e","S","Q","L">>,
       <<"M","y","S","Q","L">> >>

education_keywords ==
    << <<"b","a","c","h","e","l","o","r">>,
       <<"m","a","s","t","e","r">>,
       <<"p","h","d">>,
       <<"d","e","g","r","e","e">>,
       <<"u","n","i","v","e","r","s","i","t","y">>,
       <<"c","o","l","l","e","g","e">>,
       <<"b","t","e","c","h">>,
       <<"m","t","e","c","h">>,
       <<"m","b","a">>,
       <<"b","c","a">>,
       <<"m","c","a">>,
       <<"d","i","p","l","o","m","a">> >>

S_Unknown == <<"U","n","k","n","o","w","n">>
S_General_Position == <<"G","e","n","e","r","a","l"," ","P","o","s","i","t","i","o","n">>

\* the first of the first 5 lines that looks like a name, <<>> if none does
RECURSIVE NameLineFrom(_, _)
NameLineFrom(lines, k) ==
    IF k > Len(lines) \/ k > 5 THEN <<>>
    ELSE LET line == strip(lines[k])
         IN  IF /\ line # <<>>
                /\ Len(line) > 3
                /\ Len(line) < 50
                /\ MatchAt(name_line_pattern, line, 0).found
             THEN line
             ELSE NameLineFrom(lines, k + 1)

\* the name the sender header gives: <<TRUE, name>>, or <<FALSE, <<>> >> when
\* the text has to be searched
SenderName(sender) ==
    LET name_match == search(display_name_pattern, sender)
        name == strip(group1(sender, name_match))
    IN  IF /\ sender # <<>>
           /\ name_match.found
           /\ ~Contains(name, <<"@">>)
           /\ ~Contains(name, <<".","c","o","m">>)
           /\ ~Contains(name, <<"n","o","r","e","p","l","y">>)
        THEN <<TRUE, name>>
        ELSE <<FALSE, <<>> >>

\* mutant: the display name is taken whatever it contains
M_extract_name_any_display(text, email_data) ==
    LET sender == Get(email_data, "sender", <<>>)
        name_match == search(display_name_pattern, sender)
        line == NameLineFrom(split_lines(text), 1)
    IN  IF sender # <<>> /\ name_match.found THEN strip(group1(sender, name_match))
        ELSE IF line # <<>> THEN line
        ELSE IF search(name_pattern, text).found THEN group1(text, search(name_pattern, text))
        ELSE S_Unknown

_extract_name(text, email_data) ==
    LET from_sender == SenderName(Get(email_data, "sender", <<>>))
        line == NameLineFrom(split_lines(text), 1)
        name_match == search(name_pattern, text)
    IN  IF from_sender[1] THEN from_sender[2]
        ELSE IF line # <<>> THEN line
        ELSE IF name_match.found THEN group1(text, name_match)
        ELSE S_Unknown

_extract_phone(text) ==
    IF search(phone_pattern, text).found
    THEN group0(text, search(phone_pattern, text))
    ELSE <<>>

\* the scan for location_indicators from indicator k on
RECURSIVE LocationByIndicator(_, _)
LocationByIndicator(text, k) ==
    IF k > Len(location_indicators) THEN <<>>
    ELSE LET indicator == location_indicators[k]
             start == find(text, indicator, 0) + Len(indicator)
             newline == find(text, <<"\n">>, start)
             end == IF newline = -1 THEN start + 50 ELSE newline
             location == strip(Slice(text, start, end))
         IN  IF Contains(text, indicator) /\ location # <<>>
             THEN location
             ELSE LocationByIndicator(text, k + 1)

\* the loop over location_patterns from pattern k on: the first pattern that
\* matches returns its group 1, stripped
RECURSIVE LocationByPattern(_, _)
LocationByPattern(text, k) ==
    IF k > Len(location_patterns) THEN LocationByIndicator(text, 1)
    ELSE IF search(location_patterns[k], text).found
         THEN strip(group1(text, search(location_patterns[k], text)))
         ELSE LocationByPattern(text, k + 1)

_extract_location(text) == LocationByPattern(text, 1)

RECURSIVE PositionByPattern(_, _)
PositionByPattern(subject, k) ==
    IF k > Len(position_patterns) THEN S_General_Position
    ELSE IF search(position_patterns[k], subject).found
         THEN title(strip(group1(subject, search(position_patterns[k], subject))))
         ELSE PositionByPattern(subject, k + 1)

\* mutant: the templates are tried before the keywords
M_extract_applied_position_templates_first(email_data) ==
    LET subject == lower(Get(email_data, "subject", <<>>))
        Hit(keyword) == Contains(subject, keyword)
        hits == SelectSeq(position_keywords, Hit)
    IN  IF PositionByPattern(subject, 1) # S_General_Position THEN PositionByPattern(subject, 1)
        ELSE IF hits # <<>> THEN title(Head(hits))
        ELSE S_General_Position

_extract_applied_position(email_data) ==
    LET subject == lower(Get(email_data, "subject", <<>>))
        Hit(keyword) == Contains(subject, keyword)
        hits == SelectSeq(position_keywords, Hit)
    IN  IF hits # <<>> THEN title(Head(hits)) ELSE PositionByPattern(subject, 1)

\* mutant: the list is not cut to 10
M_extract_skills_uncut(text) ==
    LET Found(skill) == Contains(lower(text), lower(skill))
    IN  SelectSeq(common_skills, Found)

_extract_skills(text) ==
    LET Found(skill) == Contains(lower(text), lower(skill))
        found_skills == SelectSeq(common_skills, Found)
    IN  SubSeq(found_skills, 1, Min(10, Len(found_skills)))

\* the first sentence that holds the keyword, <<>> if none does
EducationSentence(text, keyword) ==
    LET Holds(sentence) == Contains(lower(sentence), keyword)
        holding == SelectSeq(sent_tokenize(text), Holds)
    IN  IF holding = <<>> THEN <<>> ELSE <<Slice(strip(Head(holding)), 0, 100)>>

RECURSIVE EducationFrom(_, _)
EducationFrom(text, k) ==
    IF k > Len(education_keywords) THEN <<>>
    ELSE IF /\ Contains(lower(text), education_keywords[k])
            /\ EducationSentence(text, education_keywords[k]) # <<>>
         THEN EducationSentence(text, education_keywords[k])[1]
         ELSE EducationFrom(text, k + 1)

_extract_education(text) == EducationFrom(text, 1)

\* extract_candidate_info: with no text to analyse the record is returned as
\* it was initialised
extract_candidate_info(resume_text, email_data) ==
    LET candidate_info0 ==
            [ name |-> <<>>, email |-> <<>>, phone |-> <<>>, location |-> <<>>,
              years_of_experience |-> 0, applied_position |-> <<>>,
              skills |-> <<>>, education |-> <<>>,
              raw_text_length |-> IF Truthy(resume_text) THEN Len(resume_text) ELSE 0,
              extraction_source |-> IF Truthy(resume_text) THEN "resume" ELSE "email" ]
        text_to_analyze == IF Truthy(resume_text) THEN resume_text
                           ELSE Get(email_data, "body", <<>>)
    IN  IF ~Truthy(text_to_analyze) THEN candidate_info0
        ELSE [ candidate_info0 EXCEPT
                 !.name = _extract_name(text_to_analyze, email_data),
                 !.email = _extract_email(text_to_analyze, email_data),
                 !.phone = _extract_phone(text_to_analyze),
                 !.location = _extract_location(text_to_analyze),
                 !.years_of_experience = _extract_experience(text_to_analyze),
                 !.applied_position = _extract_applied_position(email_data),
                 !.skills = _extract_skills(text_to_analyze),
                 !.education = _extract_education(text_to_analyze) ]

(***************************************************************************)
(* config/email_config.py and the classifier of email_processor.py         *)
(***************************************************************************)
APPLICATION_KEYWORDS ==
    << <<"a","p","p","l","i","c","a","t","i","o","n">>,
       <<"a","p","p","l","y">>,
       <<"r","e","s","u","m","e">>,
       <<"c","v">>,
       <<"p","o","s","i","t","i","o","n">>,
       <<"j","o","b">>,
       <<"v","a","c","a","n","c","y">>,
       <<"o","p","p","o","r","t","u","n","i","t","y">>,
       <<"i","n","t","e","r","e","s","t","e","d">>,
       <<"c","a","n","d","i","d","a","t","e">> >>

\* A parsed message: its headers (a dict; a header may be missing), whether
\* it is multipart, and the parts walk() yields after the container, each
\* with its content type, its Content-Disposition ("" when it has none), its
\* payload and whether the payload decodes as UTF-8.  A message that is not
\* multipart has one part, itself.
Part(ctype, disposition, payload, utf8) ==
    [content_type |-> ctype, disposition |-> disposition, payload |-> payload, utf8 |-> utf8]

\* _get_email_body: the first text/plain part that is no attachment and
\* decodes; the payload as it is for a message that is not multipart.
_get_email_body(msg) ==
    IF msg.multipart
    THEN LET Usable(p) == /\ p.content_type = "text/plain"
                          /\ p.disposition # "attachment"
                          /\ p.utf8
             usable == SelectSeq(msg.parts, Usable)
         IN  IF usable = <<>> THEN <<>> ELSE Head(usable).payload
    ELSE msg.parts[1].payload

\* sum(1 for keyword in APPLICATION_KEYWORDS if keyword in body)
keyword_count(body) ==
    Cardinality({i \in 1..Len(APPLICATION_KEYWORDS) : Contains(body, APPLICATION_KEYWORDS[i])})

\* mutant: a single keyword in the body is enough
M_is_job_application_one(msg) ==
    LET subject == lower(Get(msg.headers, "Subject", <<>>))
    IN  IF \E i \in 1..Len(APPLICATION_KEYWORDS) : Contains(subject, APPLICATION_KEYWORDS[i])
        THEN TRUE
        ELSE keyword_count(lower(_get_email_body(msg))) >= 1

_is_job_application(msg) ==
    LET subject == lower(Get(msg.headers, "Subject", <<>>))
    IN  IF \E i \in 1..Len(APPLICATION_KEYWORDS) : Contains(subject, APPLICATION_KEYWORDS[i])
        THEN TRUE
        ELSE keyword_count(lower(_get_email_body(msg))) >= 2

(***************************************************************************)
(* The messages the classifier is run on.                                  *)
(***************************************************************************)
S_sender == <<"A","n","n"," ","L","e","e"," ","<","a","@","b",".","i","o",">">>

\* words of subjects and bodies: keywords in either case, pieces of a
\* keyword, and text that is no keyword
ClassifierWords ==
    { <<"J","o","b">>, <<"c","v">>, <<"A","P","P","L","Y">>, <<"j","o">>, <<"b"," ">>,
      <<"h","i"," ">>, <<"r","e","s","u","m","e"," ">> }

SubjectTexts == Texts(ClassifierWords, MaxSubjectWords)
BodyTexts == Texts(ClassifierWords, MaxBodyWords)

Headers(subject) == [From |-> S_sender, Subject |-> subject]

\* a message that is not multipart
PlainMessage(headers, body) ==
    [headers |-> headers, multipart |-> FALSE,
     parts |-> <<Part("text/plain", "", body, TRUE)>>]

\* a multipart message: an HTML part, a text/plain attachment, then the body
MultipartMessage(headers, attached, body) ==
    [headers |-> headers, multipart |-> TRUE,
     parts |-> <<Part("text/html", "", attached, TRUE),
                 Part("text/plain", "attachment", attached, TRUE),
                 Part("text/plain", "", body, TRUE)>>]

ClassifierInputs ==
    {PlainMessage(Headers(sj), b) : sj \in SubjectTexts, b \in BodyTexts}
    \cup {PlainMessage([From |-> S_sender], b) : b \in BodyTexts}
    \cup {MultipartMessage(Headers(sj), <<"J","o","b"," ","c","v">>, b) :
            sj \in SubjectTexts, b \in Texts(ClassifierWords, 1)}

NoMessage == [headers |-> <<>>, multipart |-> FALSE, parts |-> <<>>]

InitClassifier ==
    /\ email_msg \in ClassifierInputs
    /\ verdict = <<>>
    /\ candidate_info = <<>> /\ ratings = 0 /\ default_reached = FALSE
    /\ in_text = <<>> /\ in_email_data = <<>> /\ call = "none" /\ result = <<>>
    /\ ScannerIdle /\ ParserIdle /\ SummaryIdle /\ ExcelIdle

IsJobApplication ==
    /\ verdict = <<>>
    /\ verdict' = <<_is_job_application(email_msg)>>
    /\ UNCHANGED <<email_msg, rater_vars, extractor_vars, scanner_vars, parser_vars, summary_vars, excel_vars>>

NextClassifier == IsJobApplication

SpecClassifier == InitClassifier /\ [][NextClassifier]_vars

(***************************************************************************)
(* Properties of the classifier.                                           *)
(***************************************************************************)
\* the keywords of the vocabulary that occur in a text, whatever the case
KeywordsIn(text) ==
    {i \in 1..Len(APPLICATION_KEYWORDS) :
        \E a \in 0..Len(text) :
            /\ a + Len(APPLICATION_KEYWORDS[i]) <= Len(text)
            /\ \A j \in 1..Len(APPLICATION_KEYWORDS[i]) :
                  LowerChar(text[a + j]) = APPLICATION_KEYWORDS[i][j]}

Cl_subject == Get(email_msg.headers, "Subject", <<>>)
Cl_body == _get_email_body(email_msg)

\* C6: the classifier accepts exactly when some keyword occurs in the
\* subject, or at least 2 distinct keywords occur in the body (substring
\* match, whatever the case); 10 keywords make up the vocabulary.
C6_Classifier ==
    /\ Len(APPLICATION_KEYWORDS) = 10
    /\ verdict # <<>> =>
          (verdict[1] <=> (KeywordsIn(Cl_subject) # {} \/ Cardinality(KeywordsIn(Cl_body)) >= 2))

\* no keyword in the subject and the same keyword twice in the body: rejected
C6_Witness ==
    /\ verdict = <<FALSE>>
    /\ KeywordsIn(Cl_subject) = {}
    /\ Cl_body = <<"J","o","b","J","o","b">>

(***************************************************************************)
(* The texts and messages the extractor is run on.                         *)
(***************************************************************************)
\* phrases of a resume: one for each experience pattern, one above the cap
\* of 50, years of a date range, and text that states nothing
ExperiencePhrases ==
    { <<"5"," ","y","e","a","r","s"," ","o","f"," ","e","x","p","e","r","i","e","n","c","e","."," ">>,
      <<"e","x","p","e","r","i","e","n","c","e",":"," ","2"," ","y","e","a","r","s","."," ">>,
      <<"3"," ","y","e","a","r","s"," ","i","n"," ","Q","A","."," ">>,
      <<"o","v","e","r"," ","9"," ","y","e","a","r","s","."," ">>,
      <<"m","o","r","e"," ","t","h","a","n"," ","7"," ","y","e","a","r","s","."," ">>,
      <<"6","0"," ","Y","e","a","r","s"," ","E","x","p","e","r","i","e","n","c","e","."," ">>,
      <<"2","0","1","5"," ","2","0","1","9"," ">>,
      <<"h","i"," ">> }

ExperienceTexts == Texts(ExperiencePhrases, MaxPhrases)

S_sender_plain == <<"A","n","n"," ","L","e","e">>
S_sender_bare == <<"b","o","b","@","y",".","o","r","g">>
S_sender_blank == <<" ","<","a","@","b",".","i","o",">">>
S_subject == <<"A","p","p","l","i","c","a","t","i","o","n"," ","f","o","r"," ","S","o","f","t","w","a","r","e"," ","E","n","g","i","n","e","e","r">>

\* texts with no address, one address, two addresses
AddressTexts ==
    { <<>>,
      <<"n","o"," ","a","d","d","r","e","s","s"," ","h","e","r","e">>,
      <<"M","a","i","l"," ","c","v","@","z",".","d","e"," ","n","o","w">>,
      <<"x","@","y",".","e","u"," ","o","r"," ","c","v","@","z",".","d","e">> }

Senders == {<<>>, S_sender, S_sender_plain, S_sender_bare, S_sender_blank}

EmailData(sender, subject, body) == [sender |-> sender, subject |-> subject, body |-> body]

\* <<resume_text, email_data>>: resumes stating experience with a usual
\* message; every sender with every address text as resume or as body; the
\* empty text with empty metadata (a dict with no key, and one whose values
\* are all empty)
ExtractorInputs ==
    {<<t, EmailData(S_sender, S_subject, <<>>)>> : t \in ExperienceTexts}
    \cup {<<t, EmailData(sd, S_subject, b)>> :
            t \in AddressTexts, sd \in Senders, b \in AddressTexts}
    \cup {<<t, <<>> >> : t \in AddressTexts}
    \cup {<< <<>>, EmailData(<<>>, <<>>, <<>>) >>}

InitExtractor ==
    /\ \E input \in ExtractorInputs : in_text = input[1] /\ in_email_data = input[2]
    /\ call = "none"
    /\ result = <<>>
    /\ candidate_info = <<>> /\ ratings = 0 /\ default_reached = FALSE
    /\ email_msg = <<>> /\ verdict = <<>>
    /\ ScannerIdle /\ ParserIdle /\ SummaryIdle /\ ExcelIdle

ExtractCandidateInfo ==
    /\ call = "none"
    /\ call' = "extract_candidate_info"
    /\ result' = <<extract_candidate_info(in_text, in_email_data)>>
    /\ UNCHANGED <<in_text, in_email_data, rater_vars, classifier_vars, scanner_vars, parser_vars, summary_vars, excel_vars>>

\* the field methods called on their own, as the tests call them
ExtractEmail ==
    /\ call = "none"
    /\ call' = "_extract_email"
    /\ result' = <<_extract_email(in_text, in_email_data)>>
    /\ UNCHANGED <<in_text, in_email_data, rater_vars, classifier_vars, scanner_vars, parser_vars, summary_vars, excel_vars>>

ExtractExperience ==
    /\ call = "none"
    /\ call' = "_extract_experience"
    /\ result' = <<_extract_experience(in_text)>>
    /\ UNCHANGED <<in_text, in_email_data, rater_vars, classifier_vars, scanner_vars, parser_vars, summary_vars, excel_vars>>

NextExtractor == ExtractCandidateInfo \/ ExtractEmail \/ ExtractExperience

SpecExtractor == InitExtractor /\ [][NextExtractor]_vars

(***************************************************************************)
(* Properties of the field extractor.                                      *)
(***************************************************************************)
\* the message metadata is empty: no key, or no key with a value
EmptyMetadata == \A k \in DOMAIN in_email_data : in_email_data[k] = <<>>

\* C8: extract_candidate_info on empty text with empty message metadata
\* returns a record with name "Unknown", every other field empty or zero,
\* and extraction_source "email".
C8_EmptyRecord ==
    (call = "extract_candidate_info" /\ in_text = <<>> /\ EmptyMetadata) =>
        /\ result[1].name = S_Unknown
        /\ result[1].email = <<>>
        /\ result[1].phone = <<>>
        /\ result[1].location = <<>>
        /\ result[1].education = <<>>
        /\ result[1].years_of_experience = 0
        /\ result[1].skills = <<>>
        /\ result[1].extraction_source = "email"

\* every match of every experience pattern in the text
AllExperienceMatches(text) ==
    findall(experience_patterns[1], text) \o findall(experience_patterns[2], text)
    \o findall(experience_patterns[3], text) \o findall(experience_patterns[4], text)
    \o findall(experience_patterns[5], text)

\* C9: when some experience pattern matches the text, _extract_experience
\* returns the greatest integer matched, over all matches of all the
\* patterns, capped at 50; the result is always in 0..50.
C9_MaxOverAllPatterns ==
    call = "_extract_experience" =>
        /\ result[1] \in 0..50
        /\ AllExperienceMatches(in_text) # <<>> =>
              LET n == MaxOf(Ints(AllExperienceMatches(in_text)))
              IN  result[1] = (IF n < 50 THEN n ELSE 50)

\* the first address of a text, <<>> if it has none
FirstAddress(text) ==
    IF search(email_pattern, text).found
    THEN Slice(text, search(email_pattern, text).start, search(email_pattern, text).end)
    ELSE <<>>

X_sender == Get(in_email_data, "sender", <<>>)

\* C10: _extract_email returns the address of the sender header whenever it
\* holds one, whatever the text; otherwise the first address of the text;
\* otherwise the empty string.
C10_SenderFirst ==
    call = "_extract_email" =>
        result[1] = (IF FirstAddress(X_sender) # <<>> THEN FirstAddress(X_sender)
                     ELSE FirstAddress(in_text))

\* the sender and the text both hold an address, not the same one
C10_Witness ==
    /\ call = "_extract_email"
    /\ X_sender = S_sender
    /\ FirstAddress(in_text) = <<"x","@","y",".","e","u">>
    /\ result[1] = <<"a","@","b",".","i","o">>

(***************************************************************************)
(* resume_parser.py.  A file on disk: its path, whether it exists, its      *)
(* pages (PDF), paragraphs (DOCX, no table) or single text (TXT), how the  *)
(* parser of its format fares on it ("ok", "raises", and for a text file   *)
(* "not_utf8"), how PyMuPDF fares ("ok", "raises", "missing" when it is    *)
(* not installed) and the text PyMuPDF reads from each page (fitz_pages).  *)
(***************************************************************************)
\* a file from which both PDF readers read the same text
File(path, pages, parse, fitz) ==
    [path |-> path, exists |-> TRUE, pages |-> pages, fitz_pages |-> pages,
     parse |-> parse, fitz |-> fitz]

\* os.path.splitext(path)[1] of a path with no directory part
splitext1(path) ==
    LET dots == {i \in 1..Len(path) : path[i] = "."}
        last == CHOOSE i \in dots : \A j \in dots : j <= i
    IN  IF dots = {} \/ (\A j \in 1..(last - 1) : path[j] = ".") THEN <<>>
        ELSE SubSeq(path, last, Len(path))

\* text += part + "\n" for every part
RECURSIVE JoinLines(_)
JoinLines(parts) ==
    IF parts = <<>> THEN <<>> ELSE Head(parts) \o <<"\n">> \o JoinLines(Tail(parts))

_extract_from_pdf_alternative(file) ==
    IF file.fitz = "ok" THEN strip(JoinLines(file.fitz_pages)) ELSE <<>>

_extract_from_pdf(file) ==
    IF file.parse = "ok" THEN strip(JoinLines(file.pages))
    ELSE _extract_from_pdf_alternative(file)

_extract_from_docx(file) ==
    IF file.parse = "ok" THEN strip(JoinLines(file.pages)) ELSE <<>>

\* a file that is not UTF-8 is read again as latin-1, which decodes anything
_extract_from_txt(file) ==
    IF file.parse \in {"ok", "not_utf8"} THEN strip(Head(file.pages)) ELSE <<>>

\* what extract_text returns: None, or a str
None == [none |-> TRUE, text |-> <<>>]
Str(text) == [none |-> FALSE, text |-> text]

\* mutant: the extension is compared as it is written
M_extract_text_case_sensitive(file) ==
    LET file_extension == splitext1(file.path)
    IN  IF ~file.exists THEN None
        ELSE IF file_extension = <<".","p","d","f">> THEN Str(_extract_from_pdf(file))
        ELSE IF file_extension \in {<<".","d","o","c">>, <<".","d","o","c","x">>}
             THEN Str(_extract_from_docx(file))
        ELSE IF file_extension = <<".","t","x","t">> THEN Str(_extract_from_txt(file))
        ELSE None

extract_text(file) ==
    LET file_extension == lower(splitext1(file.path))
    IN  IF ~file.exists THEN None
        ELSE IF file_extension = <<".","p","d","f">> THEN Str(_extract_from_pdf(file))
        ELSE IF file_extension \in {<<".","d","o","c">>, <<".","d","o","c","x">>}
             THEN Str(_extract_from_docx(file))
        ELSE IF file_extension = <<".","t","x","t">> THEN Str(_extract_from_txt(file))
        ELSE None

resume_indicators ==
    << <<"e","x","p","e","r","i","e","n","c","e">>,
       <<"e","d","u","c","a","t","i","o","n">>,
       <<"s","k","i","l","l","s">>,
       <<"w","o","r","k">>,
       <<"e","m","p","l","o","y","m","e","n","t">>,
       <<"u","n","i","v","e","r","s","i","t","y">>,
       <<"c","o","l","l","e","g","e">>,
       <<"d","e","g","r","e","e">>,
       <<"c","e","r","t","i","f","i","c","a","t","i","o","n">>,
       <<"p","r","o","j","e","c","t">>,
       <<"r","e","s","p","o","n","s","i","b","i","l","i","t","y">>,
       <<"a","c","h","i","e","v","e","m","e","n","t">>,
       <<"q","u","a","l","i","f","i","c","a","t","i","o","n">> >>

\* the least length of a resume and the least number of indicators in it
MinResumeLength == 50
MinIndicators == 3

indicator_count(text_lower) ==
    Cardinality({i \in 1..Len(resume_indicators) : Contains(text_lower, resume_indicators[i])})

\* mutant: the length is taken of the text as it is
M_is_valid_resume_unstripped(text) ==
    IF ~Truthy(text) \/ Len(text) < MinResumeLength THEN FALSE
    ELSE indicator_count(lower(text)) >= MinIndicators

is_valid_resume(text) ==
    IF ~Truthy(text) \/ Len(strip(text)) < MinResumeLength THEN FALSE
    ELSE indicator_count(lower(text)) >= MinIndicators

(***************************************************************************)
(* email_processor.py: fetch_application_emails.                           *)
(***************************************************************************)
RESUME_EXTENSIONS ==
    << <<".","p","d","f">>, <<".","d","o","c">>, <<".","d","o","c","x">>, <<".","t","x","t">> >>

\* str.endswith
endswith(s, suffix) ==
    Len(suffix) <= Len(s) /\ SubSeq(s, Len(s) - Len(suffix) + 1, Len(s)) = suffix

\* An attachment part: its filename and the file _save_attachment writes
\* ("saves" is FALSE when writing it fails).
Attachment(filename, pages, parse, fitz, saves) ==
    [content_type |-> "application/octet-stream", disposition |-> "attachment",
     payload |-> <<>>, utf8 |-> FALSE, filename |-> filename,
     pages |-> pages, parse |-> parse, fitz |-> fitz, saves |-> saves]

\* str(n) of a natural number
RECURSIVE str(_)
str(n) ==
    LET digit == <<"0","1","2","3","4","5","6","7","8","9">>[(n % 10) + 1]
    IN  IF n < 10 THEN <<digit>> ELSE str(n \div 10) \o <<digit>>

\* _save_attachment: the path is "<email_id>_<timestamp>_<filename>"
SavedFile(part, email_id) ==
    File(str(email_id) \o <<"_", "t", "_">> \o part.filename,
         part.pages, part.parse, part.fitz)

\* the attachments list of _extract_email_data
Attachments(msg, email_id) ==
    LET Kept(part) ==
            /\ part.disposition = "attachment"
            /\ part.filename # <<>>
            /\ \E i \in 1..Len(RESUME_EXTENSIONS) :
                  endswith(lower(part.filename), RESUME_EXTENSIONS[i])
            /\ part.saves
        kept == SelectSeq(msg.parts, Kept)
    IN  [i \in 1..Len(kept) |->
            [filename |-> kept[i].filename, path |-> SavedFile(kept[i], email_id)]]

_extract_email_data(msg, email_id) ==
    [ email_id |-> email_id,
      sender |-> Get(msg.headers, "From", <<>>),
      subject |-> Get(msg.headers, "Subject", <<>>),
      date |-> Get(msg.headers, "Date", <<>>),
      body |-> _get_email_body(msg),
      attachments |-> Attachments(msg, email_id) ]

(***************************************************************************)
(* main.py: process_applications.                                          *)
(***************************************************************************)
\* mutant: the loop stops at the first attachment that yields text
RECURSIVE M_ResumeText_first_only(_)
M_ResumeText_first_only(attachments) ==
    IF attachments = <<>> THEN <<>>
    ELSE LET text == extract_text(Head(attachments).path)
         IN  IF ~text.none /\ Truthy(text.text) THEN text.text \o <<"\n">>
             ELSE M_ResumeText_first_only(Tail(attachments))

\* the loop over the attachments: resume_text += text + "\n" when text
RECURSIVE ResumeText(_)
ResumeText(attachments) ==
    IF attachments = <<>> THEN <<>>
    ELSE LET text == extract_text(Head(attachments).path)
         IN  (IF ~text.none /\ Truthy(text.text) THEN text.text \o <<"\n">> ELSE <<>>)
             \o ResumeText(Tail(attachments))

\* the record the loop body appends for one application email
RatedCandidate(data) ==
    rate_candidate(extract_candidate_info(ResumeText(data.attachments), data))

(***************************************************************************)
(* The inboxes the scanner is run on.  A message of the inbox: its         *)
(* sequence number, what FETCH answers for it ("OK", "NO", or "raises"     *)
(* when parsing or classifying what it returns raises), how                *)
(* _extract_email_data fares on it ("ok" or "raises") and the parsed       *)
(* message.                                                                *)
(***************************************************************************)
S_resume == <<"A","n","n"," ","L","e","e","\n","5"," ","y","e","a","r","s"," ","o","f"," ","e","x","p","e","r","i","e","n","c","e"," ","i","n"," ","S","Q","L">>

\* accepted on its subject; the text comes from its PDF
ApplicationWithResume ==
    [headers |-> [From |-> S_sender, Subject |-> <<"J","o","b"," ","a","p","p","l","i","c","a","t","i","o","n">>],
     multipart |-> TRUE,
     parts |-> <<Part("text/plain", "", <<"h","i">>, TRUE),
                 Attachment(<<"c","v",".","P","D","F">>, <<S_resume>>, "ok", "missing", TRUE),
                 Attachment(<<"m","e",".","p","n","g">>, <<>>, "raises", "missing", TRUE)>>]

\* accepted on two keywords of its body; no attachment
ApplicationInBody ==
    PlainMessage([From |-> S_sender_bare, Subject |-> <<"h","e","l","l","o">>],
                 <<"m","y"," ","c","v"," ","a","n","d"," ","r","e","s","u","m","e",":"," ","3"," ","y","e","a","r","s"," ","i","n"," ","Q","A">>)

\* one keyword in the body: rejected
Newsletter ==
    PlainMessage([From |-> <<"E","v","e"," ","<","e","@","x",".","e","u",">">>, Subject |-> <<"h","e","l","l","o">>],
                 <<"a"," ","j","o","b"," ","f","o","r"," ","y","o","u">>)

InboxMessages ==
    { [fetch |-> "OK", extract |-> "ok", email_msg |-> ApplicationWithResume],
      [fetch |-> "OK", extract |-> "ok", email_msg |-> ApplicationInBody],
      [fetch |-> "OK", extract |-> "ok", email_msg |-> Newsletter],
      [fetch |-> "NO", extract |-> "ok", email_msg |-> ApplicationInBody],
      [fetch |-> "raises", extract |-> "ok", email_msg |-> ApplicationWithResume] }

Inboxes == UNION {[1..n -> InboxMessages] : n \in 0..MaxMailbox}

InitScanner ==
    /\ mailbox \in Inboxes
    /\ imap_conn \in {"open", "none"}
    /\ search_ok \in BOOLEAN
    /\ pc = "start"
    /\ fetch_i = 0 /\ application_emails = <<>> /\ proc_i = 0
    /\ candidates = <<>> /\ origin = <<>> /\ seen = <<>> /\ failed = FALSE
    /\ candidate_info = <<>> /\ ratings = 0 /\ default_reached = FALSE
    /\ email_msg = <<>> /\ verdict = <<>>
    /\ in_text = <<>> /\ in_email_data = <<>> /\ call = "none" /\ result = <<>>
    /\ ParserIdle /\ SummaryIdle /\ ExcelIdle

Others == <<rater_vars, classifier_vars, extractor_vars, parser_vars, summary_vars, excel_vars>>

\* fetch_application_emails up to its loop: [] when not connected or when
\* the search does not answer OK
FetchStart ==
    /\ pc = "start"
    /\ IF imap_conn # "open" \/ ~search_ok
       THEN /\ pc' = "fetched"
            /\ failed' = TRUE
            /\ fetch_i' = fetch_i
       ELSE /\ pc' = "fetch"
            /\ fetch_i' = 1
            /\ failed' = failed
    /\ UNCHANGED <<mailbox, imap_conn, search_ok, application_emails, proc_i,
                   candidates, origin, seen, Others>>

\* mutant: every fetched message is taken for an application
M_FetchEmail_ungated ==
    /\ pc = "fetch"
    /\ fetch_i <= Len(mailbox)
    /\ LET m == mailbox[fetch_i]
       IN  IF m.fetch # "OK"
           THEN /\ application_emails' = application_emails
                /\ failed' = TRUE
           ELSE /\ application_emails' =
                      Append(application_emails, _extract_email_data(m.email_msg, fetch_i))
                /\ failed' = failed
    /\ fetch_i' = fetch_i + 1
    /\ UNCHANGED <<mailbox, imap_conn, search_ok, pc, proc_i, candidates, origin, seen, Others>>

\* mutant: a message that cannot be fetched ends the loop
M_FetchEmail_stops ==
    /\ pc = "fetch"
    /\ fetch_i <= Len(mailbox)
    /\ LET m == mailbox[fetch_i]
       IN  IF m.fetch # "OK"
           THEN /\ application_emails' = application_emails
                /\ failed' = TRUE
                /\ fetch_i' = Len(mailbox) + 1
           ELSE IF _is_job_application(m.email_msg)
           THEN /\ application_emails' =
                      (IF m.extract = "ok"
                       THEN Append(application_emails, _extract_email_data(m.email_msg, fetch_i))
                       ELSE application_emails)
                /\ failed' = (failed \/ m.extract # "ok")
                /\ fetch_i' = fetch_i + 1
           ELSE /\ application_emails' = application_emails
                /\ failed' = failed
                /\ fetch_i' = fetch_i + 1
    /\ UNCHANGED <<mailbox, imap_conn, search_ok, pc, proc_i, candidates, origin, seen, Others>>

\* one round of the loop over email_ids: a status that is not OK and an
\* exception both skip the message, and so does an _extract_email_data that
\* returns None because it raised
FetchEmail ==
    /\ pc = "fetch"
    /\ fetch_i <= Len(mailbox)
    /\ LET m == mailbox[fetch_i]
       IN  IF m.fetch # "OK"
           THEN /\ application_emails' = application_emails
                /\ failed' = TRUE
           ELSE IF _is_job_application(m.email_msg)
           THEN /\ application_emails' =
                      (IF m.extract = "ok"
                       THEN Append(application_emails, _extract_email_data(m.email_msg, fetch_i))
                       ELSE application_emails)
                /\ failed' = (failed \/ m.extract # "ok")
           ELSE /\ application_emails' = application_emails
                /\ failed' = failed
    /\ fetch_i' = fetch_i + 1
    /\ UNCHANGED <<mailbox, imap_conn, search_ok, pc, proc_i, candidates, origin, seen, Others>>

\* the loop over email_ids is over: fetch_application_emails returns
FetchDone ==
    /\ pc = "fetch"
    /\ fetch_i > Len(mailbox)
    /\ pc' = "fetched"
    /\ UNCHANGED <<mailbox, imap_conn, search_ok, fetch_i, application_emails, proc_i,
                   candidates, origin, seen, failed, Others>>

\* if not application_emails: return candidates; else the loop starts
StartProcessing ==
    /\ pc = "fetched"
    /\ IF application_emails = <<>>
       THEN pc' = "finally" /\ proc_i' = proc_i
       ELSE pc' = "process" /\ proc_i' = 1
    /\ UNCHANGED <<mailbox, imap_conn, search_ok, fetch_i, application_emails,
                   candidates, origin, seen, failed, Others>>

\* the loop body down to candidates.append(rated_candidate)
ProcessApplication ==
    /\ pc = "process"
    /\ proc_i <= Len(application_emails)
    /\ candidates' = Append(candidates, RatedCandidate(application_emails[proc_i]))
    /\ origin' = Append(origin, application_emails[proc_i].email_id)
    /\ pc' = "mark"
    /\ UNCHANGED <<mailbox, imap_conn, search_ok, fetch_i, application_emails, proc_i,
                   seen, failed, Others>>

\* mutant: the message after the one just recorded is marked
M_MarkAsRead_next ==
    /\ pc = "mark"
    /\ \E stored \in BOOLEAN :
          IF imap_conn = "open" /\ stored
          THEN /\ seen' = Append(seen, application_emails[Min(proc_i + 1, Len(application_emails))].email_id)
               /\ failed' = failed
          ELSE /\ seen' = seen
               /\ failed' = TRUE
    /\ proc_i' = proc_i + 1
    /\ pc' = "process"
    /\ UNCHANGED <<mailbox, imap_conn, search_ok, fetch_i, application_emails,
                   candidates, origin, Others>>

\* mark_as_read, the end of the loop body; it logs the exception of a STORE
\* that fails and returns
MarkAsRead ==
    /\ pc = "mark"
    /\ \E stored \in BOOLEAN :
          IF imap_conn = "open" /\ stored
          THEN /\ seen' = Append(seen, application_emails[proc_i].email_id)
               /\ failed' = failed
          ELSE /\ seen' = seen
               /\ failed' = TRUE
    /\ proc_i' = proc_i + 1
    /\ pc' = "process"
    /\ UNCHANGED <<mailbox, imap_conn, search_ok, fetch_i, application_emails,
                   candidates, origin, Others>>

\* mutant: the except clause empties the list
M_ProcessingRaises_drops ==
    /\ \/ pc = "process" /\ proc_i <= Len(application_emails)
       \/ pc = "mark"
    /\ failed' = TRUE
    /\ pc' = "finally"
    /\ candidates' = <<>>
    /\ origin' = <<>>
    /\ UNCHANGED <<mailbox, imap_conn, search_ok, fetch_i, application_emails, proc_i,
                   seen, Others>>

\* a statement of the loop body raises, before the append or after it: the
\* except clause of process_applications ends the loop
ProcessingRaises ==
    /\ \/ pc = "process" /\ proc_i <= Len(application_emails)
       \/ pc = "mark"
    /\ failed' = TRUE
    /\ pc' = "finally"
    /\ UNCHANGED <<mailbox, imap_conn, search_ok, fetch_i, application_emails, proc_i,
                   candidates, origin, seen, Others>>

\* the loop is over
ProcessingDone ==
    /\ pc = "process"
    /\ proc_i > Len(application_emails)
    /\ pc' = "finally"
    /\ UNCHANGED <<mailbox, imap_conn, search_ok, fetch_i, application_emails, proc_i,
                   candidates, origin, seen, failed, Others>>

\* finally: disconnect(); then process_applications returns candidates.
\* disconnect does nothing without a connection; close() may raise, which
\* skips logout() and is swallowed
Finally ==
    /\ pc = "finally"
    /\ \E closes \in BOOLEAN :
          imap_conn' = (IF imap_conn # "open" THEN imap_conn
                        ELSE IF closes THEN "closed" ELSE "unclosed")
    /\ pc' = "done"
    /\ UNCHANGED <<mailbox, search_ok, fetch_i, application_emails, proc_i,
                   candidates, origin, seen, failed, Others>>

NextScanner ==
    \/ FetchStart
    \/ FetchEmail
    \/ FetchDone
    \/ StartProcessing
    \/ ProcessApplication
    \/ MarkAsRead
    \/ ProcessingRaises
    \/ ProcessingDone
    \/ Finally

SpecScanner == InitScanner /\ [][NextScanner]_vars

(***************************************************************************)
(* The scanner run on an inbox of one application, for every way its       *)
(* attachments fare.                                                       *)
(***************************************************************************)
MaxAttachments == 2

\* attachments: a PDF and a text file that yield text, a DOCX the reader
\* fails on, a PDF with no page, a picture, a text file that is not saved
SomeAttachments ==
    { Attachment(<<"c","v",".","p","d","f">>, <<<<"5"," ","y","e","a","r","s"," ","o","f"," ","e","x","p","e","r","i","e","n","c","e">>>>, "ok", "missing", TRUE),
      Attachment(<<"b",".","T","X","T">>, <<<<"S","Q","L"," ","a","n","d"," ","J","a","v","a">>>>, "ok", "missing", TRUE),
      Attachment(<<"c",".","d","o","c","x">>, <<<<"A","W","S">>>>, "raises", "missing", TRUE),
      Attachment(<<"d",".","p","d","f">>, <<>>, "ok", "missing", TRUE),
      Attachment(<<"e",".","p","n","g">>, <<<<"G","i","t">>>>, "ok", "missing", TRUE),
      Attachment(<<"f",".","t","x","t">>, <<<<"L","i","n","u","x">>>>, "ok", "missing", FALSE) }

SomeBodies == { <<>>, <<"3"," ","y","e","a","r","s"," ","i","n"," ","Q","A">> }

\* an application, accepted on its subject, with its body and attachments
ApplicationWith(body, attached) ==
    [headers |-> [From |-> S_sender, Subject |-> <<"j","o","b">>],
     multipart |-> TRUE,
     parts |-> <<Part("text/plain", "", body, TRUE)>> \o attached]

InitAttachments ==
    /\ \E body \in SomeBodies, n \in 0..MaxAttachments :
          \E attached \in [1..n -> SomeAttachments] :
              mailbox = <<[fetch |-> "OK", extract |-> "ok",
                           email_msg |-> ApplicationWith(body, attached)]>>
    /\ imap_conn \in {"open", "none"}
    /\ search_ok \in BOOLEAN
    /\ pc = "start"
    /\ fetch_i = 0 /\ application_emails = <<>> /\ proc_i = 0
    /\ candidates = <<>> /\ origin = <<>> /\ seen = <<>> /\ failed = FALSE
    /\ candidate_info = <<>> /\ ratings = 0 /\ default_reached = FALSE
    /\ email_msg = <<>> /\ verdict = <<>>
    /\ in_text = <<>> /\ in_email_data = <<>> /\ call = "none" /\ result = <<>>
    /\ ParserIdle /\ SummaryIdle /\ ExcelIdle

SpecAttachments == InitAttachments /\ [][NextScanner]_vars

(***************************************************************************)
(* Properties of the scanner.                                              *)
(***************************************************************************)
\* the sequence numbers of the inbox messages the classifier accepts, in
\* inbox order
AcceptedIds ==
    LET Accepted(i) == _is_job_application(mailbox[i].email_msg)
    IN  SelectSeq([i \in 1..Len(mailbox) |-> i], Accepted)

\* the record due for inbox message i: the fields extracted from the text of
\* its readable resumes (from its body when it has none), then rated
RecordOf(i) ==
    LET msg == mailbox[i].email_msg
        data == _extract_email_data(msg, i)
    IN  rate_candidate(extract_candidate_info(ResumeText(data.attachments), data))

\* C7: messages are taken one at a time in inbox order and the classifier
\* gates the rest: while no step has failed, the records made so far are
\* those of the first accepted messages, one each, in inbox order, no message
\* is worked on before the one before it is finished, and the list returned
\* holds exactly one rated record per accepted message and none for a
\* rejected one.
C7_OneRecordPerApplication ==
    ~failed =>
        /\ Len(candidates) = Len(origin)
        /\ Len(origin) <= Len(AcceptedIds)
        /\ \A j \in 1..Len(origin) :
              /\ origin[j] = AcceptedIds[j]
              /\ candidates[j] = RecordOf(origin[j])
              /\ RatingKeys \subseteq DOMAIN candidates[j]
        /\ pc \in {"process", "mark"} =>
              Len(candidates) = (IF pc = "mark" THEN proc_i ELSE proc_i - 1)
        /\ pc = "done" => Len(origin) = Len(AcceptedIds)

\* an inbox of an application, a rejected message and another application
\* was scanned to the end: two records, of the first and of the third
C7_Witness ==
    /\ pc = "done"
    /\ ~failed
    /\ Len(mailbox) = 3
    /\ origin = <<1, 3>>
    /\ candidates[1].extraction_source = "email"
    /\ candidates[2].extraction_source = "resume"

(***************************************************************************)
(* The resume parser called on its own: a file is chosen, then             *)
(* extract_text is called on its path.                                     *)
(***************************************************************************)
\* file names: the four formats in either case, other formats, no
\* extension, a name that is only an extension, two extensions
FileNames ==
    { <<"c","v",".","p","d","f">>, <<"c","v",".","P","D","F">>, <<"c","v",".","d","o","c">>,
      <<"c","v",".","D","o","c","x">>, <<"c","v",".","t","x","t">>, <<"a",".","b",".","T","X","T">>,
      <<"c","v",".","p","n","g">>, <<"c","v">>, <<".","p","d","f">>,
      <<"c","v",".","p","d","f",".","e","x","e">>, <<"c","v",".","r","t","f">> }

\* what a file holds: nothing, blanks, one text, two pages
FileContents ==
    { <<>>, << <<>> >>, << <<" ", "\n">> >>, << <<" ","A","n","n"," ","L","e","e"," ">> >>,
      << <<"A","n","n"," ","L","e","e">>, <<"S","Q","L"," ">> >> }

ParserOutcomes == {"ok", "raises", "not_utf8"}
FitzOutcomes == {"ok", "raises", "missing"}

IsTxt(path) == lower(splitext1(path)) = <<".","t","x","t">>

\* a text file holds one text, only a text file can fail to decode, and the
\* two PDF readers read the same text
Files ==
    { f \in [path : FileNames, exists : BOOLEAN, pages : FileContents,
             fitz_pages : FileContents, parse : ParserOutcomes, fitz : FitzOutcomes] :
        /\ f.fitz_pages = f.pages
        /\ IsTxt(f.path) => Len(f.pages) = 1
        /\ ~IsTxt(f.path) => f.parse # "not_utf8" }

\* words of a text under check: indicators in either case, one inside
\* another word, and a word that is no indicator
ValidityWords ==
    { <<"e","x","p","e","r","i","e","n","c","e"," ">>, <<"E","d","u","c","a","t","i","o","n"," ">>,
      <<"S","K","I","L","L","S"," ">>, <<"n","e","t","w","o","r","k"," ">>, <<"h","e","l","l","o"," ">> }

MaxValidityWords == 3
MaxTrailing == 20

\* t filled with a letter up to n characters
Pad(t, n) == t \o [i \in 1..(n - Len(t)) |-> "x"]

\* texts of fewer than 50 characters, of 49 and of 50, with and without
\* blanks behind them
ValidityTexts ==
    { Pad(t, n) \o [i \in 1..m |-> " "] :
        t \in Texts(ValidityWords, MaxValidityWords),
        n \in {0, MinResumeLength - 1, MinResumeLength},
        m \in {0, MaxTrailing} }

\* either a file is handed to extract_text or a text to is_valid_resume
InitParser ==
    /\ \/ file_path \in Files /\ checked_text = <<>>
       \/ file_path = <<>> /\ checked_text \in ValidityTexts
    /\ parsed = <<>> /\ valid = <<>>
    /\ candidate_info = <<>> /\ ratings = 0 /\ default_reached = FALSE
    /\ email_msg = <<>> /\ verdict = <<>>
    /\ in_text = <<>> /\ in_email_data = <<>> /\ call = "none" /\ result = <<>>
    /\ ScannerIdle /\ SummaryIdle /\ ExcelIdle

ExtractText ==
    /\ file_path # <<>>
    /\ parsed = <<>>
    /\ parsed' = <<extract_text(file_path)>>
    /\ UNCHANGED <<file_path, checked_text, valid, rater_vars, classifier_vars,
                   extractor_vars, scanner_vars, summary_vars, excel_vars>>

IsValidResume ==
    /\ file_path = <<>>
    /\ valid = <<>>
    /\ valid' = <<is_valid_resume(checked_text)>>
    /\ UNCHANGED <<file_path, parsed, checked_text, rater_vars, classifier_vars,
                   extractor_vars, scanner_vars, summary_vars, excel_vars>>

NextParser == ExtractText \/ IsValidResume

SpecParser == InitParser /\ [][NextParser]_vars

(***************************************************************************)
(* Properties of the resume parser.                                        *)
(***************************************************************************)
P_extension == lower(splitext1(file_path.path))
P_allowed == P_extension \in {<<".","p","d","f">>, <<".","d","o","c">>,
                              <<".","d","o","c","x">>, <<".","t","x","t">>}
\* every reader of the file's format failed on it
P_handler_failed ==
    IF P_extension = <<".","p","d","f">>
    THEN file_path.parse # "ok" /\ file_path.fitz # "ok"
    ELSE IF P_extension = <<".","t","x","t">>
    THEN file_path.parse = "raises"
    ELSE file_path.parse # "ok"
P_content ==
    IF P_extension = <<".","t","x","t">> THEN Head(file_path.pages)
    ELSE JoinLines(file_path.pages)

\* C11: extract_text chooses the handler by the extension of the path,
\* whatever its case, among .pdf, .doc, .docx and .txt; any other extension
\* gives None, a handler that fails gives the empty string, and the call
\* always returns None or a str to its caller.
C11_Dispatch ==
    parsed # <<>> =>
        /\ parsed[1] = None \/ parsed[1] = Str(parsed[1].text)
        /\ ~P_allowed => parsed[1] = None
        /\ (file_path.exists /\ P_allowed) => ~parsed[1].none
        /\ (file_path.exists /\ P_allowed /\ P_handler_failed) => parsed[1] = Str(<<>>)
        /\ (file_path.exists /\ P_allowed /\ ~P_handler_failed) =>
              parsed[1] = Str(strip(P_content))

\* a PDF named in capitals on which both readers fail: the empty string
C11_Witness ==
    /\ parsed # <<>>
    /\ file_path.path = <<"c","v",".","P","D","F">>
    /\ file_path.exists
    /\ file_path.parse = "raises" /\ file_path.fitz = "missing"
    /\ file_path.pages # <<>>
    /\ parsed[1] = Str(<<>>)

\* the resume indicators that occur in the text under check
P_indicators ==
    {i \in 1..Len(resume_indicators) : Contains(lower(checked_text), resume_indicators[i])}

\* C12 as stated: is_valid_resume returns false if the text has fewer than 50
\* characters or fewer than 3 of the 13 indicators occur in it, and true
\* otherwise.
C12_ValidByLength ==
    valid # <<>> =>
        (valid[1] = FALSE <=> (Len(checked_text) < 50 \/ Cardinality(P_indicators) < 3))

\* C12: is_valid_resume returns false if the text without its leading and
\* trailing whitespace has fewer than 50 characters or fewer than 3 of the 13
\* indicators occur in it (as substrings, whatever their case), and true
\* otherwise.
C12_ValidByStrippedLength ==
    valid # <<>> =>
        /\ Len(resume_indicators) = 13
        /\ valid[1] = FALSE <=>
              (Len(strip(checked_text)) < 50 \/ Cardinality(P_indicators) < 3)

\* a text of exactly 50 characters with three indicators was found valid
C12_Witness ==
    /\ valid = <<TRUE>>
    /\ Len(checked_text) = 50
    /\ Cardinality(P_indicators) = 3

\* the text each attachment of message i gives, in attachment order: the
\* text read from a saved resume file, nothing when the part is no resume
\* file, was not saved, or its reader failed or found no text
A_texts(i) ==
    LET parts == mailbox[i].email_msg.parts
        Extension(part) == lower(splitext1(part.filename))
        Recognised(part) ==
            Extension(part) \in {<<".","p","d","f">>, <<".","d","o","c">>,
                                 <<".","d","o","c","x">>, <<".","t","x","t">>}
        Read(part) ==
            IF Extension(part) = <<".","t","x","t">>
            THEN (IF part.parse = "raises" THEN <<>> ELSE strip(Head(part.pages)))
            ELSE IF part.parse = "ok" \/ (Extension(part) = <<".","p","d","f">> /\ part.fitz = "ok")
            THEN strip(JoinLines(part.pages))
            ELSE <<>>
    IN  [k \in 1..Len(parts) |->
            IF parts[k].disposition = "attachment" /\ Recognised(parts[k]) /\ parts[k].saves
            THEN Read(parts[k]) ELSE <<>>]

\* the non-empty texts of ts, each followed by a newline, one after the other
RECURSIVE A_joined(_)
A_joined(ts) ==
    IF ts = <<>> THEN <<>>
    ELSE (IF Head(ts) # <<>> THEN Head(ts) \o <<"\n">> ELSE <<>>) \o A_joined(Tail(ts))

\* the text that is analysed for message i
A_analysed(i) ==
    IF A_joined(A_texts(i)) # <<>> THEN A_joined(A_texts(i))
    ELSE _get_email_body(mailbox[i].email_msg)

MaxLeading == 6

\* senders: none, one with a display name, a bare address, a blank display
\* name, no display name, display names that are refused, a name alone
NameSenders ==
    { <<>>, S_sender, S_sender_bare, S_sender_blank, <<"<","a","@","b",".","i","o",">">>,
      <<"n","o","r","e","p","l","y"," ","<","n","@","x",".","i","o",">">>, <<"S","a","l","e","s",".","c","o","m"," ","<","s","@","x",".","i","o",">">>, S_sender_plain }

\* the lines a name is looked for in: a name and more, a name after blanks,
\* no name, a name inside a line, a line of 50 characters that begins
\* with a name
NameBodies ==
    { <<>>,
      <<"A","n","n"," ","L","e","e"," ","S","m","i","t","h">>,
      <<" "," ","B","o"," ","L","i"," "," ","\n","A","n","n"," ","L","e","e">>,
      <<"h","e","l","l","o","\n","A","n","n"," ","L","e","e"," ","S","m","i","t","h">>,
      <<"s","e","e"," ","A","n","n"," ","L","e","e">>,
      Pad(<<"A","n","n"," ","L","e","e"," ">>, 50) }

\* k lines, blank or not, set before the text t
RECURSIVE Leading(_, _, _)
Leading(filler, k, t) == IF k = 0 THEN t ELSE filler \o <<"\n">> \o Leading(filler, k - 1, t)

NameTexts ==
    { Leading(filler, k, t) :
        filler \in {<<>>, <<"h","i">>}, k \in 0..MaxLeading, t \in NameBodies }

\* subjects: none, a keyword inside a template, templates whose capture is
\* one word of several, two keywords in the other order than the
\* vocabulary's, two templates, templates with nothing to capture
PositionSubjects ==
    { <<>>,
      <<"A","p","p","l","i","c","a","t","i","o","n"," ","f","o","r"," ","S","e","n","i","o","r"," ","D","e","v","e","l","o","p","e","r">>,
      <<"A","p","p","l","i","c","a","t","i","o","n"," ","f","o","r"," ","D","a","t","a"," ","S","c","i","e","n","t","i","s","t">>,
      <<"a","p","p","l","y","i","n","g"," ","f","o","r"," "," ","Q","A"," ","l","e","a","d">>,
      <<"P","o","s","i","t","i","o","n",":"," ","c","+","+"," ","d","e","v">>,
      <<"r","o","l","e",":","t","e","s","t","e","r">>,
      <<"r","o","l","e",":"," ","m","a","n","a","g","e","r"," ","o","f"," ","a","n","a","l","y","s","t","s">>,
      <<"A"," ","S","O","F","T","W","A","R","E"," ","E","N","G","I","N","E","E","R"," ","a","n","d"," ","d","e","v","e","l","o","p","e","r">>,
      <<"r","o","l","e",":"," ","x"," ","p","o","s","i","t","i","o","n",":"," ","y">>,
      <<"a","p","p","l","i","c","a","t","i","o","n"," ","f","o","r">>,
      <<"P","o","s","i","t","i","o","n",":">>,
      <<"H","e","l","l","o">> }

\* texts naming skills: none, one twice in two cases, skills inside other
\* words, ten skills, more than ten
SkillTexts ==
    { <<>>,
      <<"S","Q","L"," ","a","n","d"," ","s","q","l">>,
      <<"I"," ","s","a","i","d"," ","J","a","v","a","S","c","r","i","p","t">>,
      <<"g","i","t"," ","a","w","s"," ","c","s","s"," ","h","t","m","l"," ","s","q","l"," ","c","#"," ","c","+","+"," ","j","a","v","a"," ","r","e","a","c","t"," ","p","y","t","h","o","n">>,
      <<"m","y","s","q","l"," ","o","r","a","c","l","e"," ","s","a","p"," ","g","i","t"," ","a","w","s"," ","c","s","s"," ","h","t","m","l"," ","s","q","l"," ","c","#"," ","c","+","+"," ","j","a","v","a","s","c","r","i","p","t"," ","p","y","t","h","o","n">> }

\* <<text, email_data>>: every text with the senders that leave the name to
\* the text, every sender with two of the texts, every subject with and
\* without a text and a body, every text naming skills
FieldInputs ==
    {<<t, [sender |-> S_sender, subject |-> sj, body |-> b]>> :
        t \in {<<>>, <<"x">>}, sj \in PositionSubjects, b \in {<<>>, <<"h","i">>}}
    \cup {<<t, [sender |-> S_sender]>> : t \in {<<>>, <<"x">>}}
    \cup {<<t, [sender |-> S_sender, subject |-> <<>>, body |-> <<>>]>> : t \in SkillTexts}
    \cup
    {<<t, [sender |-> sd, subject |-> <<>>, body |-> <<>>]>> :
        t \in NameTexts, sd \in {S_sender_bare, <<"<","a","@","b",".","i","o",">">>}}
    \cup {<<t, <<>> >> : t \in NameTexts}
    \cup {<<t, [sender |-> sd, subject |-> <<>>, body |-> <<>>]>> :
            t \in {<<>>, <<"A","n","n"," ","L","e","e"," ","S","m","i","t","h">>}, sd \in NameSenders}

InitFields ==
    /\ \E input \in FieldInputs : in_text = input[1] /\ in_email_data = input[2]
    /\ call = "none"
    /\ result = <<>>
    /\ candidate_info = <<>> /\ ratings = 0 /\ default_reached = FALSE
    /\ email_msg = <<>> /\ verdict = <<>>
    /\ ScannerIdle /\ ParserIdle /\ SummaryIdle /\ ExcelIdle

ExtractName ==
    /\ call = "none"
    /\ call' = "_extract_name"
    /\ result' = <<_extract_name(in_text, in_email_data)>>
    /\ UNCHANGED <<in_text, in_email_data, rater_vars, classifier_vars, scanner_vars,
                   parser_vars, summary_vars, excel_vars>>

ExtractAppliedPosition ==
    /\ call = "none"
    /\ call' = "_extract_applied_position"
    /\ result' = <<_extract_applied_position(in_email_data)>>
    /\ UNCHANGED <<in_text, in_email_data, rater_vars, classifier_vars, scanner_vars,
                   parser_vars, summary_vars, excel_vars>>

ExtractSkills ==
    /\ call = "none"
    /\ call' = "_extract_skills"
    /\ result' = <<_extract_skills(in_text)>>
    /\ UNCHANGED <<in_text, in_email_data, rater_vars, classifier_vars, scanner_vars,
                   parser_vars, summary_vars, excel_vars>>

NextFields == ExtractName \/ ExtractAppliedPosition \/ ExtractSkills \/ ExtractCandidateInfo

SpecFields == InitFields /\ [][NextFields]_vars

(***************************************************************************)
(* Properties of the field methods.                                        *)
(***************************************************************************)
\* the 4-digit years (19xx, 20xx) written in a text from offset i on
RECURSIVE D_years(_, _)
D_years(text, i) ==
    LET m == SearchFrom(date_pattern, text, i)
    IN  IF i > Len(text) \/ ~m.found THEN <<>>
        ELSE <<int(group0(text, m))>> \o D_years(text, m.end)

\* those of them in the range (1980, current_year)
D_in_range(text) ==
    LET InRange(y) == y > 1980 /\ y < 2024
    IN  SelectSeq(D_years(text, 0), InRange)

\* C16: when no experience pattern matches, _extract_experience infers the
\* years from the 4-digit years of the text: with at least 2 years in the
\* range (1980, current_year) the result is current_year minus the earliest
\* of them, capped at 50, and otherwise it is 0.
C16_DateFallback ==
    (call = "_extract_experience" /\ AllExperienceMatches(in_text) = <<>>) =>
        result[1] = (IF Len(D_in_range(in_text)) >= 2
                     THEN (IF 2024 - MinOf(D_in_range(in_text)) < 50
                           THEN 2024 - MinOf(D_in_range(in_text)) ELSE 50)
                     ELSE 0)

\* the display name of the sender: the text before its first '<', stripped
N_display ==
    LET sender == X_sender
        opens == {i \in 1..Len(sender) : sender[i] = "<"}
        first == CHOOSE i \in opens : \A j \in opens : i <= j
    IN  strip(IF opens = {} THEN sender ELSE SubSeq(sender, 1, first - 1))

\* the sender has text before '<' and its display name has none of the
\* refused parts
N_display_taken ==
    /\ X_sender # <<>>
    /\ X_sender[1] # "<"
    /\ ~Contains(N_display, <<"@">>)
    /\ ~Contains(N_display, <<".","c","o","m">>)
    /\ ~Contains(N_display, <<"n","o","r","e","p","l","y">>)

\* a line begins with two capitalized words
N_name_like(line) == MatchAt(name_line_pattern, line, 0).found

\* the first of the lines ls, stripped, that begins with two capitalized
\* words and is shorter than limit; <<>> when there is none
N_first_name_line(ls, limit) ==
    LET hits == {k \in 1..Len(ls) : N_name_like(strip(ls[k])) /\ Len(strip(ls[k])) < limit}
    IN  IF hits = {} THEN <<>>
        ELSE strip(ls[CHOOSE k \in hits : \A j \in hits : k <= j])

N_lines == split_lines(in_text)
N_non_empty_lines == SelectSeq(N_lines, LAMBDA l : strip(l) # <<>>)
N_first5(ls) == SubSeq(ls, 1, IF Len(ls) < 5 THEN Len(ls) ELSE 5)

\* the name the text gives when no line of the chosen ones is a name
N_from_pattern ==
    IF search(name_pattern, in_text).found
    THEN group1(in_text, search(name_pattern, in_text))
    ELSE S_Unknown

\* C17 as stated: the display name of the sender unless it contains '@',
\* '.com' or 'noreply'; else the first of the first 5 non-empty lines of the
\* text that matches the two-capitalized-word pattern; else the first match
\* of the pattern anywhere in the text; else "Unknown".
C17_NameOfNonEmptyLines ==
    call = "_extract_name" =>
        result[1] =
            (IF N_display_taken THEN N_display
             ELSE IF N_first_name_line(N_first5(N_non_empty_lines), 1000) # <<>>
             THEN N_first_name_line(N_first5(N_non_empty_lines), 1000)
             ELSE N_from_pattern)

\* C17: the display name of the sender unless it contains '@', '.com' or
\* 'noreply'; else the first of the first 5 lines of the text, blank lines
\* counted, that once stripped has fewer than 50 characters and begins with
\* two capitalized words; else the first match of the two-capitalized-word
\* pattern at the start of a line of the text; else "Unknown".
C17_NameOrder ==
    call = "_extract_name" =>
        result[1] =
            (IF N_display_taken THEN N_display
             ELSE IF N_first_name_line(N_first5(N_lines), 50) # <<>>
             THEN N_first_name_line(N_first5(N_lines), 50)
             ELSE N_from_pattern)

\* the sender gave no name and the name stands on the sixth line, after five
\* blank ones: the pattern found it, not the scan of the lines
C17_Witness ==
    /\ call = "_extract_name"
    /\ ~N_display_taken
    /\ Len(N_lines) = 6
    /\ \A k \in 1..5 : N_lines[k] = <<>>
    /\ N_name_like(N_lines[6])
    /\ result[1] # N_lines[6]
    /\ result[1] = N_from_pattern

\* the subject as it is searched, the keywords and the templates found in it
A_subject == lower(Get(in_email_data, "subject", <<>>))
A_keywords == {k \in 1..Len(position_keywords) : Contains(A_subject, position_keywords[k])}
A_templates == {k \in 1..Len(position_patterns) : search(position_patterns[k], A_subject).found}
A_least(S) == CHOOSE k \in S : \A j \in S : k <= j
A_capture(k) == strip(group1(A_subject, search(position_patterns[k], A_subject)))

\* C18: applied_position is the first keyword of the vocabulary, in
\* vocabulary order, that occurs in the lowered subject, title-cased; when no
\* keyword occurs it is the capture, title-cased, of the first of the four
\* templates (application for, applying for, position:, role:) that matches;
\* and "General Position" when nothing matches.
C18_PositionOrder ==
    call = "_extract_applied_position" =>
        /\ Len(position_patterns) = 4
        /\ result[1] =
              (IF A_keywords # {} THEN title(position_keywords[A_least(A_keywords)])
               ELSE IF A_templates # {} THEN title(A_capture(A_least(A_templates)))
               ELSE S_General_Position)

\* a subject with a template and, inside it, a keyword: the keyword won
C18_Witness ==
    /\ call = "_extract_applied_position"
    /\ A_templates # {}
    /\ A_keywords # {}
    /\ in_email_data.subject = <<"A","p","p","l","i","c","a","t","i","o","n"," ","f","o","r"," ","S","e","n","i","o","r"," ","D","e","v","e","l","o","p","e","r">>
    /\ result[1] = <<"D","e","v","e","l","o","p","e","r">>

\* C19: applied_position depends on the subject alone: a call of
\* extract_candidate_info on the same subject with any other resume text and
\* body, both empty included, gives the same applied_position.
C19_SubjectOnly ==
    call = "extract_candidate_info" =>
        \A t \in {<<>>, <<"x">>}, b \in {<<>>, <<"h","i">>} :
            extract_candidate_info(t, Update(in_email_data, [body |-> b])).applied_position
                = result[1].applied_position

\* the skills of the vocabulary that occur in the text, by their places in
\* the vocabulary
K_hits == {k \in 1..Len(common_skills) : Contains(lower(in_text), lower(common_skills[k]))}
\* the j-th least of them
K_nth(j) == CHOOSE k \in K_hits : Cardinality({h \in K_hits : h <= k}) = j

\* C20: the skills list has no duplicates and at most 10 entries, and it is
\* the first 10, or fewer, of the vocabulary's terms, in vocabulary order,
\* that occur in the text whatever their case.
C20_Skills ==
    call = "_extract_skills" =>
        /\ Len(result[1]) <= 10
        /\ \A i, j \in 1..Len(result[1]) : i # j => result[1][i] # result[1][j]
        /\ Len(result[1]) = (IF Cardinality(K_hits) < 10 THEN Cardinality(K_hits) ELSE 10)
        /\ \A j \in 1..Len(result[1]) : result[1][j] = common_skills[K_nth(j)]

\* a text naming thirteen skills gave the first ten of them in the
\* vocabulary's order
C20_Witness ==
    /\ call = "_extract_skills"
    /\ Cardinality(K_hits) = 13
    /\ Len(result[1]) = 10
    /\ result[1][1] = <<"P","y","t","h","o","n">>
    /\ result[1][10] = <<"G","i","t">>

\* the text extract_candidate_info analyses: the resume text, or the body of
\* the message when there is no resume text
T_analysed == IF in_text # <<>> THEN in_text ELSE Get(in_email_data, "body", <<>>)

\* C21: in the record of extract_candidate_info, extraction_source is
\* "resume" when the resume text is non-empty and "email" otherwise, and
\* raw_text_length is the length of the text that was analysed, be it the
\* resume text or the body of the message.
C21_SourceAndLength ==
    call = "extract_candidate_info" =>
        /\ result[1].extraction_source = (IF in_text # <<>> THEN "resume" ELSE "email")
        /\ result[1].raw_text_length = Len(T_analysed)

(***************************************************************************)
(* _extract_location on texts with and without labels.                     *)
(***************************************************************************)

\* labels: none, the scanned ones, one that is only a pattern's, one of neither
LocationLabels ==
    { <<>>,
      <<"C","i","t","y",":">>,
      <<"L","o","c","a","t","i","o","n",":">>,
      <<"A","d","d","r","e","s","s",":">>,
      <<"B","a","s","e","d"," ","i","n",":">>,
      <<"B","a","s","e","d",":">>,
      <<"L","i","v","e","s"," ","i","n">> }

\* what follows a label: nothing, a place, a place after a number, a city
\* with state and ZIP, three parts, blanks
LocationValues ==
    { <<>>,
      <<" ","O","s","l","o">>,
      <<" ","5"," ","O","s","l","o">>,
      <<" ","O","s","l","o",","," ","N","Y"," ","1","0","0","0","1">>,
      <<" ","R","o","m","e",","," ","L","a","z","i","o",","," ","I","t","a","l","y">>,
      <<" "," ">> }

\* what follows on the next line: nothing, a labelled city, a greeting
LocationTails ==
    { <<>>,
      <<"\n","C","i","t","y",":"," ","B","e","r","g","e","n">>,
      <<"\n","h","i">> }

\* a label followed, on one line, by more than 50 characters
S_long_line == <<"C","i","t","y",":">> \o [i \in 1..55 |-> "7"] \o <<"\n","h","i">>

LocationTexts ==
    {l \o v \o t : l \in LocationLabels, v \in LocationValues, t \in LocationTails}
    \cup {S_long_line}

LocationSenders == {S_sender, S_sender_blank}

InitLocation ==
    /\ in_text \in LocationTexts
    /\ \E sd \in LocationSenders : in_email_data = EmailData(sd, S_subject, <<>>)
    /\ call = "none"
    /\ result = <<>>
    /\ candidate_info = <<>> /\ ratings = 0 /\ default_reached = FALSE
    /\ email_msg = <<>> /\ verdict = <<>>
    /\ ScannerIdle /\ ParserIdle /\ SummaryIdle /\ ExcelIdle

ExtractLocation ==
    /\ call = "none"
    /\ call' = "_extract_location"
    /\ result' = <<_extract_location(in_text)>>
    /\ UNCHANGED <<in_text, in_email_data, rater_vars, classifier_vars, scanner_vars, parser_vars, summary_vars, excel_vars>>

NextLocation == ExtractLocation \/ ExtractCandidateInfo

SpecLocation == InitLocation /\ [][NextLocation]_vars

\* what pattern k of location_patterns yields: its capture, stripped, or nothing
L_capture(k) ==
    IF search(location_patterns[k], in_text).found
    THEN strip(group1(in_text, search(location_patterns[k], in_text)))
    ELSE <<>>

\* what the scan for a label yields: the text after the label up to the next
\* newline, at most 50 characters of it, stripped
L_after(indicator) ==
    LET start == find(in_text, indicator, 0) + Len(indicator)
        newline == find(in_text, <<"\n">>, start)
        line_end == IF newline = -1 THEN Len(in_text) ELSE newline
    IN  IF Contains(in_text, indicator)
        THEN strip(Slice(in_text, start, Min(line_end, start + 50)))
        ELSE <<>>

L_labelled == {k \in 1..Len(location_indicators) : L_after(location_indicators[k]) # <<>>}

L_scan ==
    IF L_labelled = {} THEN <<>>
    ELSE L_after(location_indicators[CHOOSE k \in L_labelled : \A j \in L_labelled : k <= j])

L_strategies == <<L_capture(1), L_capture(2), L_capture(3), L_scan>>

L_yielding == {k \in 1..Len(L_strategies) : L_strategies[k] # <<>>}

\* C22: _extract_location tries the label capture, "City, ST ZIP", "A, B, C"
\* and the label scan (up to the next newline, at most 50 characters) in this
\* order and returns the result of the first strategy whose result is not
\* empty; it returns the empty string only when every strategy's result is.
C22_FirstNonEmptyLocation ==
    call = "_extract_location" =>
        result[1] = (IF L_yielding = {} THEN <<>>
                     ELSE L_strategies[CHOOSE k \in L_yielding : \A j \in L_yielding : k <= j])

(***************************************************************************)
(* extract_text on PDF files from which PyPDF2 and PyMuPDF may read        *)
(* different text (a scanned page gives PyPDF2 nothing).                   *)
(***************************************************************************)
PdfNames == {<<"c","v",".","p","d","f">>, <<"c","v",".","P","D","F">>}

PdfFiles ==
    [path : PdfNames, exists : BOOLEAN, pages : FileContents, fitz_pages : FileContents,
     parse : {"ok", "raises"}, fitz : FitzOutcomes]

InitPdf ==
    /\ file_path \in PdfFiles /\ checked_text = <<>>
    /\ parsed = <<>> /\ valid = <<>>
    /\ candidate_info = <<>> /\ ratings = 0 /\ default_reached = FALSE
    /\ email_msg = <<>> /\ verdict = <<>>
    /\ in_text = <<>> /\ in_email_data = <<>> /\ call = "none" /\ result = <<>>
    /\ ScannerIdle /\ SummaryIdle /\ ExcelIdle

SpecPdf == InitPdf /\ [][ExtractText]_vars

\* what each of the two methods reads from the file when it does not throw
\* and its library is there
F_primary == strip(JoinLines(file_path.pages))
F_alternate == strip(JoinLines(file_path.fitz_pages))

\* C23: on a PDF, extract_text gives the text of the primary method; if that
\* method throws or returns empty text the alternate method is attempted and
\* its text is the result; if both fail, or the alternate library is missing,
\* the result is the empty text; the call never raises.
C23_PdfChain ==
    (parsed # <<>> /\ file_path.exists) =>
        /\ ~parsed[1].none
        /\ parsed[1].text =
             (IF file_path.parse = "ok" /\ F_primary # <<>> THEN F_primary
              ELSE IF file_path.fitz = "ok" THEN F_alternate
              ELSE <<>>)

\* C24: when the text that extract_candidate_info analyses is not empty, the
\* name of its record is never the empty string, whatever the sender header,
\* one with an empty or blank display name before '<' included.
C24_NameNeverEmpty ==
    (call = "extract_candidate_info" /\ T_analysed # <<>>) => result[1].name # <<>>

(***************************************************************************)
(* Properties of the run of process_applications.                          *)
(***************************************************************************)
\* the ids of the first n application emails
R_ids(n) == [j \in 1..n |-> application_emails[j].email_id]

\* the emails the loop body has finished with
R_completed == proc_i - 1

R_raised == pc \in {"finally", "done"} /\ proc_i \in 1..Len(application_emails)

\* the list holds one record for each of the first n application emails, in
\* their order (origin names the email each record was made from)
R_records(n) ==
    /\ Len(candidates) = n
    /\ origin = R_ids(n)

MaxFetched == 3

FetchedMessages ==
    InboxMessages \cup {[fetch |-> "OK", extract |-> "raises", email_msg |-> ApplicationInBody]}

InitFetch ==
    /\ mailbox \in UNION {[1..n -> FetchedMessages] : n \in 0..MaxFetched}
    /\ imap_conn \in {"open", "none"}
    /\ search_ok \in BOOLEAN
    /\ pc = "start"
    /\ fetch_i = 0 /\ application_emails = <<>> /\ proc_i = 0
    /\ candidates = <<>> /\ origin = <<>> /\ seen = <<>> /\ failed = FALSE
    /\ candidate_info = <<>> /\ ratings = 0 /\ default_reached = FALSE
    /\ email_msg = <<>> /\ verdict = <<>>
    /\ in_text = <<>> /\ in_email_data = <<>> /\ call = "none" /\ result = <<>>
    /\ ParserIdle /\ SummaryIdle /\ ExcelIdle

NextFetch == FetchStart \/ FetchEmail \/ FetchDone

SpecFetch == InitFetch /\ [][NextFetch]_vars

\* the messages among the first n of the inbox that are fetched, classified
\* as applications and whose data is extracted, in inbox order
E_taken(n) ==
    LET Taken(i) == /\ i <= n
                    /\ mailbox[i].fetch = "OK"
                    /\ _is_job_application(mailbox[i].email_msg)
                    /\ mailbox[i].extract = "ok"
    IN  SelectSeq([i \in 1..Len(mailbox) |-> i], Taken)

E_data(ids) == [j \in 1..Len(ids) |-> _extract_email_data(mailbox[ids[j]].email_msg, ids[j])]

\* the messages the loop of fetch_application_emails has been through
E_visited == IF pc = "fetch" THEN fetch_i - 1 ELSE Len(mailbox)

\* C27: a message whose FETCH does not answer OK, whose parsing or
\* classification raises, or whose data extraction fails is skipped and the
\* others are not affected: the list built so far, and the list returned,
\* holds the data of exactly the messages gone through that were fetched,
\* classified as applications and extracted, in inbox order; without a
\* connection or when the search fails the list is empty.
C27_FetchedApplications ==
    pc # "start" =>
        application_emails =
            (IF imap_conn = "none" \/ ~search_ok THEN <<>> ELSE E_data(E_taken(E_visited)))

\* an inbox of a message that cannot be fetched, one whose data extraction
\* raises and an application: the list returned holds the third alone
C27_Witness ==
    /\ pc = "fetched"
    /\ Len(mailbox) = 3
    /\ mailbox[1].fetch = "NO"
    /\ mailbox[2].extract = "raises"
    /\ Len(application_emails) = 1
    /\ application_emails[1].email_id = 3

(***************************************************************************)
(* excel_manager.py.  The file at output_file is its Candidates sheet: a    *)
(* sequence of rows, each a dict from column name to cell.  Of the 18      *)
(* columns the model keeps ID, Name, Email, Years of Experience and        *)
(* Overall Score; the others are filled the same way.                      *)
(***************************************************************************)
NoFile == [exists |-> FALSE, rows |-> <<>>]

\* the row save_candidates writes for the i-th candidate
row_data(i, candidate) ==
    ("ID" :> i)
    @@ ("Name" :> Get(candidate, "name", S_Unknown))
    @@ ("Email" :> Get(candidate, "email", <<>>))
    @@ ("Years of Experience" :> Get(candidate, "years_of_experience", 0))
    @@ ("Overall Score" :> Get(candidate, "overall_score", 0))

\* the rows save_candidates writes
excel_data(candidate_list) ==
    [i \in 1..Len(candidate_list) |-> row_data(i, candidate_list[i])]

\* what pandas reads back from a text cell: an empty cell is NaN
NaN == <<"NaN">>
TextCell(v) == IF v = <<>> THEN NaN ELSE v

\* load_existing_candidates: df.to_dict('records'), dicts keyed by the column
\* names; [] when there is no file or reading it raises
load_existing_candidates(file, reads) ==
    IF ~file.exists \/ ~reads THEN <<>>
    ELSE [i \in 1..Len(file.rows) |->
            [file.rows[i] EXCEPT !["Name"] = TextCell(@), !["Email"] = TextCell(@)]]

\* the loop of append_candidates over all_candidates from position k on,
\* with the emails seen before it
RECURSIVE unique_candidates(_, _, _)
unique_candidates(all_candidates, k, seen_emails) ==
    IF k > Len(all_candidates) THEN <<>>
    ELSE LET candidate == all_candidates[k]
             email == lower(Get(candidate, "email", <<>>))
         IN  IF Truthy(email) /\ email \notin seen_emails
             THEN <<candidate>> \o unique_candidates(all_candidates, k + 1, seen_emails \cup {email})
             ELSE IF ~Truthy(email)
             THEN <<candidate>> \o unique_candidates(all_candidates, k + 1, seen_emails)
             ELSE unique_candidates(all_candidates, k + 1, seen_emails)

\* the candidates the calls are made with
Candidate(name, email, years, score) ==
    [name |-> name, email |-> email, years_of_experience |-> years, overall_score |-> score]

SomeCandidates ==
    { Candidate(<<"A","n","n">>, <<"a","n","n","@","x",".","i","o">>, 5, 70),
      Candidate(<<"A","n","n"," ","B">>, <<"A","n","n","@","X",".","i","o">>, 7, 80),
      Candidate(<<"B","o","b">>, <<"b","o","b","@","y",".","o","r","g">>, 1, 20),
      Candidate(<<"C","y">>, <<>>, 0, 10) }

MaxSaved == 2

CandidateLists == UNION {[1..n -> SomeCandidates] : n \in 0..MaxSaved}

InitExcel ==
    /\ output_file = NoFile
    /\ excel_args \in CandidateLists \X CandidateLists
    /\ excel_pc = "start"
    /\ excel_ret = <<>>
    /\ candidate_info = <<>> /\ ratings = 0 /\ default_reached = FALSE
    /\ email_msg = <<>> /\ verdict = <<>>
    /\ in_text = <<>> /\ in_email_data = <<>> /\ call = "none" /\ result = <<>>
    /\ ScannerIdle /\ ParserIdle /\ SummaryIdle

\* save_candidates: False and nothing written for an empty list or when
\* writing raises, else the rows are written and True is returned
save_candidates(file, candidate_list, writes) ==
    IF candidate_list = <<>> \/ ~writes
    THEN [file |-> file, returned |-> FALSE]
    ELSE [file |-> [exists |-> TRUE, rows |-> excel_data(candidate_list)], returned |-> TRUE]

append_candidates(file, new_candidates, reads, writes) ==
    LET existing_candidates == load_existing_candidates(file, reads)
        all_candidates == existing_candidates \o new_candidates
    IN  save_candidates(file, unique_candidates(all_candidates, 1, {}), writes)

SaveCandidates ==
    /\ excel_pc = "start"
    /\ \E writes \in BOOLEAN :
          LET done == save_candidates(output_file, excel_args[1], writes)
          IN  /\ output_file' = done.file
              /\ excel_ret' = Append(excel_ret, done.returned)
    /\ excel_pc' = "saved"
    /\ UNCHANGED <<excel_args, rater_vars, classifier_vars, extractor_vars, scanner_vars,
                   parser_vars, summary_vars>>

AppendCandidates ==
    /\ excel_pc = "saved"
    /\ \E reads \in BOOLEAN, writes \in BOOLEAN :
          LET done == append_candidates(output_file, excel_args[2], reads, writes)
          IN  /\ output_file' = done.file
              /\ excel_ret' = Append(excel_ret, done.returned)
    /\ excel_pc' = "appended"
    /\ UNCHANGED <<excel_args, rater_vars, classifier_vars, extractor_vars, scanner_vars,
                   parser_vars, summary_vars>>

NextExcel == SaveCandidates \/ AppendCandidates

SpecExcel == InitExcel /\ [][NextExcel]_vars

\* the rows of the file that hold the candidate as save_candidates writes it
X_rows_of(candidate) ==
    {i \in 1..Len(output_file.rows) :
        /\ output_file.rows[i]["Name"] = candidate.name
        /\ output_file.rows[i]["Email"] = candidate.email
        /\ output_file.rows[i]["Years of Experience"] = candidate.years_of_experience
        /\ output_file.rows[i]["Overall Score"] = candidate.overall_score}

\* the rows of the file, and the candidates of a list, with the address
X_rows_with(email) ==
    {i \in 1..Len(output_file.rows) : lower(output_file.rows[i]["Email"]) = lower(email)}
X_with(candidate_list, email) ==
    {i \in 1..Len(candidate_list) : lower(candidate_list[i].email) = lower(email)}

\* C28: after save_candidates(A) and then append_candidates(B), both
\* returning True, every candidate of A is in the file with the name, email,
\* years of experience and score it was saved with, and a candidate of B
\* whose email is, whatever the case, that of a candidate of A adds no row.
C28_AppendPreserves ==
    (excel_pc = "appended" /\ excel_ret = <<TRUE, TRUE>>) =>
        LET A == excel_args[1]
            B == excel_args[2]
        IN  /\ \A i \in 1..Len(A) : X_rows_of(A[i]) # {}
            /\ \A j \in 1..Len(B) :
                  (B[j].email # <<>> /\ X_with(A, B[j].email) # {}) =>
                      Cardinality(X_rows_with(B[j].email))
                          <= Cardinality(X_with(A, B[j].email))

=============================================================================
